---- MODULE Spec2Model ----
(***************************************************************************)
(* Lead qualification pipeline: the deterministic scoring engine           *)
(* (crew.py), the single-record signal validator                           *)
(* (tools/signal_validation_filter.py) and the conversions that feed them  *)
(* (database.py, api.py).                                                  *)
(*                                                                         *)
(* Python values are tagged records: None, str (a sequence of one-char     *)
(* strings), int, list, and pydantic models.  Floats that the code only    *)
(* ever sets to multiples of 5.0 are integers; confidences are in tenths.  *)
(***************************************************************************)
EXTENDS Integers, Sequences, FiniteSets, TLC

VARIABLES
    phase,      \* position of the driver: which call has been made
    args,       \* arguments of the call of _calculate_deterministic_score
    origin,     \* where lead_data / user_preferences came from (direct dict or DB rows)
    frame,      \* locals left behind by the most recent call of the scoring engine
    result,     \* what the first call returned (or raised)
    result2,    \* what the repeated call with the same arguments returned
    sig,        \* the signal dictionary handed to _is_valid_signal
    verdict,    \* what _is_valid_signal returned for sig
    run         \* one call of process_single_lead: its position and its locals

vars == <<phase, args, origin, frame, result, result2, sig, verdict, run>>

\* ------------------------------------------------------------------------
\* Bounds of the model
\* ------------------------------------------------------------------------
MaxSignals == 3     \* longest detected_signals list handed to the scorer
MaxWrapped == 1     \* longest detected_signals list handed over wrapped in a list
MaxWords == 2       \* longest description / snippet, in words

\* ------------------------------------------------------------------------
\* Python values
\* ------------------------------------------------------------------------
None == [kind |-> "none"]
PyStr(s) == [kind |-> "str", s |-> s]
PyInt(n) == [kind |-> "int", n |-> n]
PyList(items) == [kind |-> "list", items |-> items]
Absent == [kind |-> "absent"]   \* key not present in a dict

Range(f) == {f[i] : i \in DOMAIN f}

\* bool(x) of a Python value
Truthy(v) ==
    CASE v.kind = "none" -> FALSE
      [] v.kind = "absent" -> FALSE
      [] v.kind = "str" -> v.s # <<>>
      [] v.kind = "int" -> v.n # 0
      [] v.kind = "list" -> v.items # <<>>
      [] v.kind = "dict0" -> FALSE          \* the empty dict
      [] OTHER -> TRUE            \* a pydantic model defines neither __bool__ nor __len__

\* the lower-case form of one character (A-Z; every other character is itself)
LowerChar(c) ==
    CASE c = "A" -> "a" [] c = "B" -> "b" [] c = "C" -> "c" [] c = "D" -> "d"
      [] c = "E" -> "e" [] c = "F" -> "f" [] c = "G" -> "g" [] c = "H" -> "h"
      [] c = "I" -> "i" [] c = "J" -> "j" [] c = "K" -> "k" [] c = "L" -> "l"
      [] c = "M" -> "m" [] c = "N" -> "n" [] c = "O" -> "o" [] c = "P" -> "p"
      [] c = "Q" -> "q" [] c = "R" -> "r" [] c = "S" -> "s" [] c = "T" -> "t"
      [] c = "U" -> "u" [] c = "V" -> "v" [] c = "W" -> "w" [] c = "X" -> "x"
      [] c = "Y" -> "y" [] c = "Z" -> "z" [] OTHER -> c

\* str.lower()
StrLower(s) == [i \in 1..Len(s) |-> LowerChar(s[i])]

\* str.strip()
RECURSIVE StrStrip(_)
StrStrip(s) ==
    IF s = <<>> THEN s
    ELSE IF Head(s) = " " THEN StrStrip(Tail(s))
    ELSE IF s[Len(s)] = " " THEN StrStrip(SubSeq(s, 1, Len(s) - 1))
    ELSE s

\* str.split(',')
RECURSIVE StrSplitComma(_)
StrSplitComma(s) ==
    IF \E i \in 1..Len(s) : s[i] = ","
    THEN LET i == CHOOSE k \in 1..Len(s) :
                      s[k] = "," /\ \A j \in 1..(k - 1) : s[j] # ","
         IN <<SubSeq(s, 1, i - 1)>> \o StrSplitComma(SubSeq(s, i + 1, Len(s)))
    ELSE <<s>>

\* [p.strip().lower() for p in item.split(',') if p.strip()]
RECURSIVE KeepTokens(_)
KeepTokens(parts) ==
    IF parts = <<>> THEN <<>>
    ELSE (IF StrStrip(Head(parts)) # <<>>
          THEN <<StrLower(StrStrip(Head(parts)))>> ELSE <<>>)
         \o KeepTokens(Tail(parts))

\* for item in pref_values_list: iterating a list yields its entries, iterating
\* a str yields its characters, each a one-character str
IterItems(v) ==
    IF v.kind = "list" THEN v.items
    ELSE [i \in 1..Len(v.s) |-> <<v.s[i]>>]

RECURSIVE ExtendPrefs(_)
ExtendPrefs(items) ==
    IF items = <<>> THEN <<>>
    ELSE KeepTokens(StrSplitComma(Head(items))) \o ExtendPrefs(Tail(items))

check_match(lead_value, pref_values_list) ==
    IF lead_value.kind = "none" \/ ~Truthy(pref_values_list)
    THEN FALSE
    ELSE LET lead_lower == StrStrip(StrLower(lead_value.s))
             processed_prefs == ExtendPrefs(IterItems(pref_values_list))
             lead_parts == Range(KeepTokens(StrSplitComma(lead_lower)))
         IN \E part \in lead_parts : part \in Range(processed_prefs)

\* dict.get(key, default) for a key that may be absent
Get(v, default) == IF v.kind = "absent" THEN default ELSE v

\* d[k] = v for every key of new
DictUpdate(old, new) ==
    [k \in (DOMAIN old) \cup (DOMAIN new) |->
        IF k \in DOMAIN new THEN new[k] ELSE old[k]]

EmptyDict == [k \in {} |-> None]

\* ------------------------------------------------------------------------
\* pydantic models of tasks.py
\* ------------------------------------------------------------------------
PositiveSignalDetectionOutput(signals) ==
    [kind |-> "model", cls |-> "PositiveSignalDetectionOutput",
     detected_signals |-> signals]

NegativeSignalDetectionOutput(signals) ==
    [kind |-> "model", cls |-> "NegativeSignalDetectionOutput",
     detected_signals |-> signals]

IsInstance(v, cls) == v.kind = "model" /\ v.cls = cls

\* len(x) > 0; a BaseModel has no __len__, so len() raises TypeError
LenRaises(v) == v.kind \notin {"str", "list"}

Raised(exc) == [outcome |-> "raised", exc |-> exc]

\* ScoringOutput(score=..., reasoning=..., ai_confidence=...): Field(ge=0, le=100)
\* and Field(ge=0.0, le=1.0); confidences are in tenths
ScoringOutputValid(score, ai_confidence) ==
    /\ 0 <= score /\ score <= 100
    /\ 0 <= ai_confidence /\ ai_confidence <= 10

\* ------------------------------------------------------------------------
\* LeadScoringCrew._calculate_deterministic_score
\* ------------------------------------------------------------------------
STRONG_SIGNALS_positive == {"series_funding", "cxo_hiring", "gov_contract", "ipo_filing"}
STRONG_SIGNALS_negative == {"delisting_notice", "sec_investigation", "pension_freezing"}
NORMAL_POS_POINTS == 5
STRONG_POS_POINTS == 10
NORMAL_NEG_DEDUCTION == 0 - 10
STRONG_NEG_DEDUCTION == 0 - 15
MAX_POS_SIGNAL_SCORE == 20
MAX_NEG_SIGNAL_DEDUCTION == 0 - 30

Abs(x) == IF x < 0 THEN 0 - x ELSE x
Min(a, b) == IF a < b THEN a ELSE b
Max(a, b) == IF a > b THEN a ELSE b

\* locals that survive from the previous call
StaleFrame(left) == left

\* total_score = 0.0; reasoning_parts = []; component_scores = {}
EnterFrame(left) ==
    [total_score |-> 0, reasoning_parts |-> <<>>, component_scores |-> EmptyDict]

CountStrong(signals, strong) ==
    Cardinality({i \in DOMAIN signals : signals[i].signal_type \in strong})

\* the loop over validated_negative_signals.detected_signals
RECURSIVE NegativeDeduction(_)
NegativeDeduction(signals) ==
    IF signals = <<>> THEN 0
    ELSE (IF Head(signals).signal_type \in STRONG_SIGNALS_negative
          THEN Abs(STRONG_NEG_DEDUCTION) ELSE Abs(NORMAL_NEG_DEDUCTION))
         + NegativeDeduction(Tail(signals))

\* the loop over validated_positive_signals[0].detected_signals
RECURSIVE PositivePoints(_)
PositivePoints(signals) ==
    IF signals = <<>> THEN 0
    ELSE (IF Head(signals).signal_type \in STRONG_SIGNALS_positive
          THEN STRONG_POS_POINTS ELSE NORMAL_POS_POINTS)
         + PositivePoints(Tail(signals))

\* 1. ICP match
IcpReasons(lead_data, user_preferences) ==
    (IF check_match(lead_data.position, Get(user_preferences.icp_role, PyList(<<>>)))
     THEN <<[label |-> "Role Match", points |-> 5, value |-> lead_data.position]>>
     ELSE <<>>)
    \o (IF check_match(lead_data.industry, Get(user_preferences.icp_industry, PyList(<<>>)))
        THEN <<[label |-> "Industry Match", points |-> 10, value |-> lead_data.industry]>>
        ELSE <<>>)
    \o (IF check_match(lead_data.region, Get(user_preferences.icp_region, PyList(<<>>)))
        THEN <<[label |-> "Region Match", points |-> 5, value |-> lead_data.region]>>
        ELSE <<>>)
    \o (IF check_match(lead_data.company_size, Get(user_preferences.icp_company_size, PyList(<<>>)))
        THEN <<[label |-> "Size Match", points |-> 10, value |-> lead_data.company_size]>>
        ELSE <<>>)

RECURSIVE SumPoints(_)
SumPoints(reasons) ==
    IF reasons = <<>> THEN 0 ELSE Head(reasons).points + SumPoints(Tail(reasons))

\* 2. connection degree
ConnectionScore(connection_degree) ==
    IF connection_degree = PyInt(1) THEN 10
    ELSE IF connection_degree = PyInt(2) THEN 5
    ELSE 0

\* 3. negative signals; the branch is taken for a NegativeSignalDetectionOutput only
NegativeCounted(validated_negative_signals) ==
    /\ Truthy(validated_negative_signals)
    /\ IsInstance(validated_negative_signals, "NegativeSignalDetectionOutput")

\* 4. positive signals; the branch is taken for a PositiveSignalDetectionOutput only
PositiveCounted(validated_positive_signals) ==
    /\ Truthy(validated_positive_signals)
    /\ IsInstance(validated_positive_signals, "PositiveSignalDetectionOutput")

\* 5. engagement: contacted = bool(last_contacted)
Contacted(last_contacted) == Truthy(last_contacted)

\* cap the total deduction: min(negative_signals_deduction, abs(MAX_NEG_SIGNAL_DEDUCTION))
UncappedDeduction(negative_signals_deduction) == negative_signals_deduction
CappedDeduction(negative_signals_deduction) ==
    Min(negative_signals_deduction, Abs(MAX_NEG_SIGNAL_DEDUCTION))

\* the body of _calculate_deterministic_score up to the engagement component:
\* the locals as they stand before the final clamp, or the exception raised on the way
ScoreLocals(lead_data, user_preferences, validated_positive_signals, validated_negative_signals, left) ==
    LET f0 == EnterFrame(left)
        icp_reasons == IcpReasons(lead_data, user_preferences)
        icp_score == SumPoints(icp_reasons)
        connection_degree == lead_data.connection_degree
        connection_score == ConnectionScore(connection_degree)
        negCounted == NegativeCounted(validated_negative_signals)
        negSignals == IF negCounted THEN validated_negative_signals.detected_signals ELSE <<>>
        num_neg_signals == Len(negSignals)
        num_strong_neg_signals == CountStrong(negSignals, STRONG_SIGNALS_negative)
        negative_signals_deduction == NegativeDeduction(negSignals)
        capped_deduction == CappedDeduction(negative_signals_deduction)
        neg_signal_score_contribution == 30 - capped_deduction
        posCounted == PositiveCounted(validated_positive_signals)
        \* reached only when len(validated_positive_signals) did not raise
        posSignals == IF posCounted /\ Len(validated_positive_signals.items) > 0
                      THEN validated_positive_signals.items[1].detected_signals ELSE <<>>
        num_pos_signals == Len(posSignals)
        num_strong_pos_signals == CountStrong(posSignals, STRONG_SIGNALS_positive)
        pos_signal_points == PositivePoints(posSignals)
        capped_pos_signal_score == Min(pos_signal_points, MAX_POS_SIGNAL_SCORE)
        contacted == Contacted(lead_data.last_contacted)
        engagement_score == IF contacted THEN 10 ELSE 0
    IN  IF posCounted /\ LenRaises(validated_positive_signals)
        THEN [raised |-> TRUE,
              total_score |-> f0.total_score + icp_score + connection_score
                              + neg_signal_score_contribution,
              reasoning_parts |-> f0.reasoning_parts,
              component_scores |-> f0.component_scores]
        ELSE [raised |-> FALSE,
              total_score |-> f0.total_score + icp_score + connection_score
                              + neg_signal_score_contribution + capped_pos_signal_score
                              + engagement_score,
              reasoning_parts |-> f0.reasoning_parts \o
                << [label |-> "ICP Match", awarded |-> icp_score, outof |-> 30,
                    found |-> Len(icp_reasons), strong |-> 0],
                   [label |-> "Connection", awarded |-> connection_score, outof |-> 10,
                    found |-> (IF connection_degree.kind = "int"
                               THEN connection_degree.n ELSE 0),
                    strong |-> 0],
                   [label |-> "Neg Signals", awarded |-> neg_signal_score_contribution,
                    outof |-> 30,
                    found |-> num_neg_signals, strong |-> num_strong_neg_signals],
                   [label |-> "Pos Signals", awarded |-> capped_pos_signal_score,
                    outof |-> MAX_POS_SIGNAL_SCORE,
                    found |-> num_pos_signals, strong |-> num_strong_pos_signals],
                   [label |-> "Engagement", awarded |-> engagement_score, outof |-> 10,
                    found |-> (IF contacted THEN 1 ELSE 0), strong |-> 0] >>,
              component_scores |-> DictUpdate(f0.component_scores,
                [icp_match_score |-> icp_score,
                 icp_match_reasons |-> icp_reasons,
                 connection_degree_score |-> connection_score,
                 connection_degree |-> connection_degree,
                 negative_signals_score |-> neg_signal_score_contribution,
                 negative_signals_count |-> num_neg_signals,
                 negative_signals_strong_count |-> num_strong_neg_signals,
                 positive_signals_score |-> capped_pos_signal_score,
                 positive_signals_count |-> num_pos_signals,
                 positive_signals_strong_count |-> num_strong_pos_signals,
                 engagement_score |-> engagement_score,
                 last_contacted |-> contacted])]

LocalsLeft(loc) ==
    [total_score |-> loc.total_score, reasoning_parts |-> loc.reasoning_parts,
     component_scores |-> loc.component_scores]

\* a variant of the final step that offsets the sum by the negative pool, does not
\* clamp it and builds the output without validating it
FinishScoreUnclamped(loc, ai_confidence) ==
    IF loc.raised
    THEN [ret |-> Raised("TypeError"), left |-> LocalsLeft(loc)]
    ELSE [ret |-> [outcome |-> "ok",
                   scoring_output |->
                       [score |-> loc.total_score + MAX_NEG_SIGNAL_DEDUCTION,
                        reasoning |-> [score |-> loc.total_score + MAX_NEG_SIGNAL_DEDUCTION,
                                       confidence |-> ai_confidence,
                                       breakdown |-> loc.reasoning_parts],
                        ai_confidence |-> ai_confidence],
                   component_scores |-> loc.component_scores],
          left |-> LocalsLeft(loc)]

\* the final step: clamp, reasoning text, ScoringOutput(...), return
FinishScore(loc, ai_confidence) ==
    LET final_score == Max(0, Min(100, loc.total_score))
        final_reasoning == [score |-> final_score, confidence |-> ai_confidence,
                            breakdown |-> loc.reasoning_parts]
    IN  IF loc.raised
        THEN [ret |-> Raised("TypeError"), left |-> LocalsLeft(loc)]
        ELSE IF ~ScoringOutputValid(final_score, ai_confidence)
        THEN [ret |-> Raised("ValidationError"), left |-> LocalsLeft(loc)]
        ELSE [ret |-> [outcome |-> "ok",
                       scoring_output |-> [score |-> final_score,
                                           reasoning |-> final_reasoning,
                                           ai_confidence |-> ai_confidence],
                       component_scores |-> loc.component_scores],
              left |-> LocalsLeft(loc)]

calculate_deterministic_score(lead_data, user_preferences, validated_positive_signals, validated_negative_signals, ai_confidence, left) ==
    FinishScore(ScoreLocals(lead_data, user_preferences, validated_positive_signals,
                            validated_negative_signals, left),
                ai_confidence)

\* LeadScoringCrew._determine_lead_status
determine_lead_status(score) ==
    IF score >= 85 THEN "money"
    ELSE IF score >= 60 THEN "hot"
    ELSE IF score >= 40 THEN "warm"
    ELSE "cold"

\* ------------------------------------------------------------------------
\* database.py: the rows and their to_dict conversions
\* ------------------------------------------------------------------------
DateTime(text) == [kind |-> "datetime", text |-> text]

\* str(x)
PyStrOf(v) ==
    CASE v.kind = "none" -> PyStr(<<"N","o","n","e">>)
      [] v.kind = "datetime" -> PyStr(v.text)
      [] OTHER -> v

\* Lead.to_dict, restricted to the keys the scoring engine reads
LeadToDict(row) ==
    [position |-> row.position,
     company_size |-> row.company_size,
     industry |-> row.industry,
     region |-> row.region,
     last_contacted |-> PyStrOf(row.last_contacted),
     connection_degree |-> row.connection_degree]

\* UserPreferences.to_dict, restricted to the ICP keys
PrefsToDict(row) ==
    [icp_industry |-> row.icp_industry,
     icp_company_size |-> row.icp_company_size,
     icp_region |-> row.icp_region,
     icp_role |-> row.icp_role]

\* ------------------------------------------------------------------------
\* Inputs
\* ------------------------------------------------------------------------
sCEO == <<"C","E","O">>
sCeo == <<"c","e","o">>
sCtoCeo == <<"C","T","O",","," ","C","E","O">>
sCeoPadded == <<" ","c","e","o"," ">>
sC == <<"c">>
sCto == <<"c","t","o">>
sCtoCeoLower == <<"c","t","o",",","c","e","o">>
sSaaS == <<"S","a","a","S">>
sSaas == <<"s","a","a","s">>
sUS == <<"U","S">>
sUs == <<"u","s">>
sSize == <<"1","0","-","5","0">>
sDate == <<"2","0","2","4","-","0","1","-","0","1">>

\* the lead and preferences of the end-to-end example
ExampleLead ==
    [position |-> PyStr(sCEO), industry |-> PyStr(sSaaS), region |-> PyStr(sUS),
     company_size |-> PyStr(sSize), connection_degree |-> PyInt(1),
     last_contacted |-> PyStr(sDate)]

ExamplePrefs ==
    [icp_role |-> PyList(<<sCeo>>), icp_industry |-> PyList(<<sSaas>>),
     icp_region |-> PyList(<<sUs>>), icp_company_size |-> PyList(<<sSize>>)]

ColdLead ==
    [position |-> None, industry |-> None, region |-> None, company_size |-> None,
     connection_degree |-> None, last_contacted |-> None]

MixedLead ==
    [position |-> PyStr(sCtoCeo), industry |-> None, region |-> PyStr(sUs),
     company_size |-> PyStr(sSize), connection_degree |-> PyInt(2),
     last_contacted |-> PyStr(<<>>)]

DistantLead == [ExampleLead EXCEPT !.connection_degree = PyInt(3)]

NoPrefs ==
    [icp_role |-> Absent, icp_industry |-> Absent, icp_region |-> Absent,
     icp_company_size |-> Absent]

JoinedPrefs ==
    [icp_role |-> PyList(<<sCtoCeoLower>>), icp_industry |-> PyList(<<sSaas>>),
     icp_region |-> PyList(<<>>), icp_company_size |-> None]

DirectLeads == {ExampleLead, ColdLead, MixedLead, DistantLead}
DirectPrefs == {ExamplePrefs, NoPrefs, JoinedPrefs}

\* rows of the leads table
ExampleRow ==
    [position |-> PyStr(sCEO), industry |-> PyStr(sSaaS), region |-> PyStr(sUS),
     company_size |-> PyStr(sSize), connection_degree |-> PyInt(1),
     last_contacted |-> DateTime(sDate)]

NeverContactedRow == [ExampleRow EXCEPT !.last_contacted = None]

EmptyRow ==
    [position |-> None, industry |-> None, region |-> None, company_size |-> None,
     connection_degree |-> None, last_contacted |-> None]

LeadRows == {ExampleRow, NeverContactedRow, EmptyRow}

\* rows of the user_preferences table: the ICP columns are Text
ExamplePrefRow ==
    [icp_role |-> PyStr(sCeo), icp_industry |-> PyStr(sSaas),
     icp_region |-> PyStr(sUs), icp_company_size |-> PyStr(sSize)]

JoinedPrefRow == [ExamplePrefRow EXCEPT !.icp_role = PyStr(sCtoCeoLower)]

NullPrefRow ==
    [icp_role |-> None, icp_industry |-> None, icp_region |-> None,
     icp_company_size |-> None]

PrefRows == {ExamplePrefRow, JoinedPrefRow, NullPrefRow}

\* one ICP dimension at a time: lead attribute and preference value
IcpDimensions == {"position", "industry", "region", "company_size"}
PrefKey(dim) ==
    CASE dim = "position" -> "icp_role"
      [] dim = "industry" -> "icp_industry"
      [] dim = "region" -> "icp_region"
      [] dim = "company_size" -> "icp_company_size"
IcpLeadValues ==
    {None, PyStr(<<>>), PyStr(sCEO), PyStr(sCtoCeo), PyStr(sCeoPadded), PyStr(sC),
     PyStr(sCto)}
IcpPrefValues ==
    {Absent, None, PyList(<<>>), PyList(<<sCeo>>), PyList(<<sCto, sCeo>>),
     PyList(<<sCtoCeo>>), PyList(<<sCeoPadded>>), PyList(<<sCto>>),
     PyStr(<<>>), PyStr(sCeo), PyStr(sCtoCeoLower), PyStr(sC), PyStr(sCto)}

\* validated signals as the scoring engine may receive them
Signal(t) == [signal_type |-> t]
PositiveTypes == {"series_funding", "partnership"}
NegativeTypes == {"sec_investigation", "layoffs"}
SeqsUpTo(S, n) == UNION {[1..k -> S] : k \in 0..n}
SignalLists(types) == SeqsUpTo({Signal(t) : t \in types}, MaxSignals)
WrappedLists(types) == SeqsUpTo({Signal(t) : t \in types}, MaxWrapped)

PositiveArgs ==
    {None, PyList(<<>>)}
    \cup {PositiveSignalDetectionOutput(l) : l \in SignalLists(PositiveTypes)}
    \cup {PyList(<<PositiveSignalDetectionOutput(l)>>) : l \in WrappedLists(PositiveTypes)}

NegativeArgs ==
    {None, PyList(<<>>)}
    \cup {NegativeSignalDetectionOutput(l) : l \in SignalLists(NegativeTypes)}
    \cup {PyList(<<NegativeSignalDetectionOutput(l)>>) : l \in WrappedLists(NegativeTypes)}

\* ai_confidence in tenths; 11 is out of the range ScoringOutput admits
Confidences == {0, 5, 11}

NoArgs == [kind |-> "none"]
NoResult == [outcome |-> "none"]
NoSignal == [kind |-> "none"]
NoVerdict == [valid |-> FALSE, reason |-> "none"]
\* process_single_lead not yet called: its locals before line 264
NoRun ==
    [pc |-> "idle", lead_data |-> None, user_preferences |-> None,
     enrichment_output |-> None, validation_raw_output |-> None,
     validation_output |-> None, crew_execution_error |-> None,
     scoring |-> NoResult, ai_confidence_score |-> None, update_payload |-> None,
     written |-> FALSE, stages |-> <<>>, ret |-> NoResult]
FreshFrame == [total_score |-> 0, reasoning_parts |-> <<>>, component_scores |-> EmptyDict]

\* ------------------------------------------------------------------------
\* The scoring engine driven on its own
\* ------------------------------------------------------------------------
InitScore ==
    /\ phase = "idle"
    /\ args = NoArgs
    /\ origin = [via |-> "none"]
    /\ frame = FreshFrame
    /\ result = NoResult
    /\ result2 = NoResult
    /\ sig = NoSignal
    /\ verdict = NoVerdict
    /\ run = NoRun

Call(a) ==
    calculate_deterministic_score(a.lead_data, a.user_preferences,
        a.validated_positive_signals, a.validated_negative_signals,
        a.ai_confidence, frame)

DoScore(a, o) ==
    /\ phase' = "scored"
    /\ args' = a
    /\ origin' = o
    /\ \E r \in {Call(a)} : result' = r.ret /\ frame' = r.left
    /\ UNCHANGED <<result2, sig, verdict, run>>

MakeArgs(lead, prefs, pos, neg, conf) ==
    [kind |-> "args", lead_data |-> lead, user_preferences |-> prefs,
     validated_positive_signals |-> pos, validated_negative_signals |-> neg,
     ai_confidence |-> conf]

\* a caller hands dictionaries to the engine
ScoreDirect ==
    /\ phase = "idle"
    /\ \E lead \in DirectLeads, prefs \in DirectPrefs, pos \in PositiveArgs,
       neg \in NegativeArgs, conf \in Confidences :
        DoScore(MakeArgs(lead, prefs, pos, neg, conf), [via |-> "direct"])

\* the batch runner loads the rows and hands over their to_dict()
ScoreLoaded ==
    /\ phase = "idle"
    /\ \E row \in LeadRows, prow \in PrefRows, neg \in NegativeArgs, pos \in {None, PyList(<<>>)} :
        DoScore(MakeArgs(LeadToDict(row), PrefsToDict(prow), pos, neg, 5),
                [via |-> "batch", lead_row |-> row, pref_row |-> prow])

\* one ICP dimension exercised with every attribute / preference shape
ScoreIcp ==
    /\ phase = "idle"
    /\ \E dim \in IcpDimensions, lv \in IcpLeadValues, pv \in IcpPrefValues :
        DoScore(MakeArgs([ColdLead EXCEPT ![dim] = lv],
                         [NoPrefs EXCEPT ![PrefKey(dim)] = pv], None, None, 5),
                [via |-> "direct"])

\* another lead is scored by the same crew object in between
ScoreOther ==
    /\ phase = "scored"
    /\ phase' = "between"
    /\ \E lead \in {DistantLead, ColdLead} :
         frame' = calculate_deterministic_score(lead, ExamplePrefs, None,
                     NegativeSignalDetectionOutput(<<Signal("layoffs")>>), 5, frame).left
    /\ UNCHANGED <<args, origin, result, result2, sig, verdict, run>>

\* the same arguments are scored a second time
ScoreAgain ==
    /\ phase \in {"scored", "between"}
    /\ phase' = (IF phase = "between" THEN "again_after_other" ELSE "again")
    /\ \E r \in {Call(args)} : result2' = r.ret /\ frame' = r.left
    /\ UNCHANGED <<args, origin, result, sig, verdict, run>>

NextScore == ScoreDirect \/ ScoreLoaded \/ ScoreIcp \/ ScoreOther \/ ScoreAgain

SpecScore == InitScore /\ [][NextScore]_vars

\* ------------------------------------------------------------------------
\* Properties of the scoring engine
\* ------------------------------------------------------------------------
Returned(r) == r.outcome = "ok"
Called == phase # "idle" /\ args.kind = "args"
CalledTwice == phase \in {"again", "again_after_other"}

\* the validated set in the form the validation stage delivers it
OrdinaryCount(model, strong) == Len(model.detected_signals) - CountStrong(model.detected_signals, strong)
StrongCount(model, strong) == CountStrong(model.detected_signals, strong)

\* C1: every final score the scoring engine returns lies in [0, 100], whatever the
\* lead, the preferences, the signal sets and the confidence were.
C1_ScoreInRange ==
    /\ Returned(result) =>
         0 <= result.scoring_output.score /\ result.scoring_output.score <= 100
    /\ Returned(result2) =>
         0 <= result2.scoring_output.score /\ result2.scoring_output.score <= 100

\* a lead with nothing in its favour and the negative pool used up: the score is 0
C1_Witness ==
    /\ Returned(result)
    /\ args.lead_data = ColdLead
    /\ IsInstance(args.validated_negative_signals, "NegativeSignalDetectionOutput")
    /\ Len(args.validated_negative_signals.detected_signals) >= 3
    /\ result.scoring_output.score = 0

\* C2: a second call with the same arguments returns the same score, the same
\* component-score map and the same reasoning (or raises the same exception), also
\* when another lead was scored in between.
C2_Deterministic == CalledTwice => result2 = result

C2_Witness ==
    /\ phase = "again_after_other"
    /\ Returned(result)
    /\ Returned(result2)
    /\ result.scoring_output.score > 0
    /\ result.component_scores.negative_signals_count > 0

\* C3: the end-to-end example (CEO / SaaS / US / 10-50, degree 1, contacted, one
\* ordinary positive signal, no negative signal) scores ICP 30, Connection 10,
\* Negative 30, Positive 5, Engagement 10, final 85, top tier.
C3_Example ==
    (/\ Called
     /\ args.lead_data = ExampleLead
     /\ args.user_preferences = ExamplePrefs
     /\ args.validated_positive_signals
            = PositiveSignalDetectionOutput(<<Signal("partnership")>>)
     /\ args.validated_negative_signals = NegativeSignalDetectionOutput(<<>>)
     /\ args.ai_confidence \in 0..10)
    => /\ Returned(result)
       /\ result.component_scores.icp_match_score = 30
       /\ result.component_scores.connection_degree_score = 10
       /\ result.component_scores.negative_signals_score = 30
       /\ result.component_scores.positive_signals_score = 5
       /\ result.component_scores.engagement_score = 10
       /\ result.scoring_output.score = 85
       /\ determine_lead_status(result.scoring_output.score) = "money"

\* C4: for a validated negative set of n ordinary and m strong signals the negative
\* contribution is 30 - min(30, 10 n + 15 m), and it is never below 0.
C4_NegativeContribution ==
    Returned(result) =>
      /\ result.component_scores.negative_signals_score >= 0
      /\ IsInstance(args.validated_negative_signals, "NegativeSignalDetectionOutput") =>
           result.component_scores.negative_signals_score
             = 30 - Min(30,
                  10 * OrdinaryCount(args.validated_negative_signals, STRONG_SIGNALS_negative)
                  + 15 * StrongCount(args.validated_negative_signals, STRONG_SIGNALS_negative))
      /\ args.validated_negative_signals \in {None, PyList(<<>>)} =>
           result.component_scores.negative_signals_score = 30

\* two strong and one ordinary negative signal: 40 points of deductions, capped at 30
C4_Witness ==
    /\ Returned(result)
    /\ IsInstance(args.validated_negative_signals, "NegativeSignalDetectionOutput")
    /\ StrongCount(args.validated_negative_signals, STRONG_SIGNALS_negative) = 2
    /\ OrdinaryCount(args.validated_negative_signals, STRONG_SIGNALS_negative) = 1
    /\ result.component_scores.negative_signals_score = 0

\* C5: for a validated positive set, as the validation stage delivers it, of n
\* ordinary and m strong signals the positive contribution is min(20, 5 n + 10 m).
C5_PositiveContribution ==
    (/\ Called
     /\ IsInstance(args.validated_positive_signals, "PositiveSignalDetectionOutput")
     /\ args.ai_confidence \in 0..10)
    => /\ Returned(result)
       /\ result.component_scores.positive_signals_score
            = Min(20,
                5 * OrdinaryCount(args.validated_positive_signals, STRONG_SIGNALS_positive)
                + 10 * StrongCount(args.validated_positive_signals, STRONG_SIGNALS_positive))

\* the comma-separated, trimmed, lower-cased tokens of a string
Tokens(s) == Range(KeepTokens(StrSplitComma(s)))
LeadTokens(v) == IF v.kind = "str" THEN Tokens(v.s) ELSE {}
PrefTokens(v) ==
    IF v.kind = "list" THEN UNION {Tokens(v.items[i]) : i \in DOMAIN v.items}
    ELSE IF v.kind = "str" THEN Tokens(v.s)
    ELSE {}
ReasonLabel(dim) ==
    CASE dim = "position" -> "Role Match"
      [] dim = "industry" -> "Industry Match"
      [] dim = "region" -> "Region Match"
      [] dim = "company_size" -> "Size Match"
Awarded(r, dim) ==
    \E i \in DOMAIN r.component_scores.icp_match_reasons :
        r.component_scores.icp_match_reasons[i].label = ReasonLabel(dim)

\* C6: the points of an ICP dimension are awarded exactly when a token of the lead
\* attribute equals a token of the preference value, for a preference given as a
\* list of entries and for one given as a comma-joined string.
C6_IcpMatch ==
    Returned(result) =>
      \A dim \in IcpDimensions :
        Awarded(result, dim) <=>
          (LeadTokens(args.lead_data[dim])
             \cap PrefTokens(args.user_preferences[PrefKey(dim)]) # {})

\* a last-contacted timestamp: a non-empty text in a dictionary, a datetime in a row
HasTimestamp ==
    IF origin.via = "batch"
    THEN origin.lead_row.last_contacted.kind = "datetime"
    ELSE Truthy(args.lead_data.last_contacted)

\* C7: the engagement component is 10 for a lead with a last-contacted timestamp and
\* 0 for a lead whose last-contacted timestamp is null, for a dictionary passed
\* directly and for a lead loaded through Lead.to_dict.
C7_Engagement ==
    Returned(result) =>
      result.component_scores.engagement_score = (IF HasTimestamp THEN 10 ELSE 0)

\* the distinct records of a validated set: two records of the same signal type and
\* description are the same fact
DistinctSignals(model) == Range(model.detected_signals)
DistinctStrong(model, strong) ==
    Cardinality({r \in DistinctSignals(model) : r.signal_type \in strong})
DistinctOrdinary(model, strong) ==
    Cardinality({r \in DistinctSignals(model) : r.signal_type \notin strong})

\* C15: two validated records of the same polarity that describe the same fact are
\* counted once in the strong / ordinary counts and deduct points once.
C15_NoDoubleCounting ==
    (Returned(result)
       /\ IsInstance(args.validated_negative_signals, "NegativeSignalDetectionOutput"))
    => /\ result.component_scores.negative_signals_count
            = Cardinality(DistinctSignals(args.validated_negative_signals))
       /\ result.component_scores.negative_signals_strong_count
            = DistinctStrong(args.validated_negative_signals, STRONG_SIGNALS_negative)
       /\ result.component_scores.negative_signals_score
            = 30 - Min(30,
                10 * DistinctOrdinary(args.validated_negative_signals, STRONG_SIGNALS_negative)
                + 15 * DistinctStrong(args.validated_negative_signals, STRONG_SIGNALS_negative))

\* ------------------------------------------------------------------------
\* tools/signal_validation_filter.py
\*
\* A text is the sequence of its words, which single spaces separate; the text
\* is lower-cased as combined_text is.  The regular expressions are word-bounded
\* (\b), so each is a condition on the words and on adjacent pairs of words.
\* A source or a signal type is a name: [kind |-> "name", n |-> <string>].
\* ------------------------------------------------------------------------
Name(n) == [kind |-> "name", n |-> n]

WordLen(w) ==
    CASE w = "a" -> 1
      [] w = "be" -> 2 [] w = "50" -> 2
      [] w = "$10m" -> 4
      [] w = "might" -> 5
      [] w = "likely" -> 6 [] w = "raised" -> 6 [] w = "hiring" -> 6
      [] w = "series" -> 6 [] w = "us$10m" -> 6
      [] w = "company" -> 7
      [] w = "expansion" -> 9 [] w = "positions" -> 9 [] w = "employees" -> 9
      [] w = "internationalization" -> 20

RECURSIVE SumWordLen(_)
SumWordLen(text) ==
    IF text = <<>> THEN 0 ELSE WordLen(Head(text)) + SumWordLen(Tail(text))

\* len(s) of a text: its words and the single spaces between them
TextLen(text) == IF text = <<>> THEN 0 ELSE SumWordLen(text) + Len(text) - 1

AdjacentPairs(text) == {<<text[i], text[i + 1]>> : i \in 1..(Len(text) - 1)}

\* VAGUE_PHRASES_REGEX.search(text)
VagueWords == {"potentially", "possibly", "rumored", "unconfirmed", "suggests", "likely"}
VaguePairs == {<<"may", "be">>, <<"might", "be">>, <<"could", "be">>, <<"seems", "to">>,
               <<"appears", "to">>, <<"expected", "to">>}
VaguePhraseFound(text) ==
    \/ \E i \in DOMAIN text : text[i] \in VagueWords
    \/ AdjacentPairs(text) \cap VaguePairs # {}

\* SPECIFIC_METRIC_REGEX.search(text).  The pattern opens with \b, so an amount
\* "$10m" matches only where a word character precedes the "$" ("us$10m"), and
\* "10%" only where a word character follows the "%".
DigitWords == {"50"}
GluedAmountWords == {"us$10m"}
MetricNouns == {"employee", "employees", "position", "positions", "office", "offices",
                "user", "users", "customer", "customers"}
SpecificMetricFound(text) ==
    \/ \E i \in DOMAIN text : text[i] \in GluedAmountWords
    \/ \E pr \in AdjacentPairs(text) : pr[1] \in DigitWords /\ pr[2] \in MetricNouns

\* re.search(r'\$|€|£|\b(seed|series [a-z]|round|investment|raised)\b', text)
CurrencyWords == {"$10m", "us$10m"}
FundingWords == {"seed", "round", "investment", "raised"}
SingleLetters == {"a"}
FundingKeywordFound(text) ==
    \/ \E i \in DOMAIN text : text[i] \in CurrencyWords \cup FundingWords
    \/ \E pr \in AdjacentPairs(text) : pr[1] = "series" /\ pr[2] \in SingleLetters

\* re.search(r'\b(hiring|jobs?|careers?|\d+ positions?)\b', text)
HiringWords == {"hiring", "job", "jobs", "career", "careers"}
HiringKeywordFound(text) ==
    \/ \E i \in DOMAIN text : text[i] \in HiringWords
    \/ \E pr \in AdjacentPairs(text) :
          pr[1] \in DigitWords /\ pr[2] \in {"position", "positions"}

\* signal.get('source', '').lower()
SourceLower(source) ==
    IF source.kind = "absent" THEN ""
    ELSE CASE source.n = "TechCrunch" -> "techcrunch"
           [] source.n = "Startbase" -> "startbase"
           [] OTHER -> source.n

HIGH_CREDIBILITY_SOURCES == {"techcrunch", "crunchbase", "sec_filing"}
LOWER_CREDIBILITY_SOURCES == {"f6s", "startbase", "xing", "wellfound", "builtin", "semrush"}
min_content_length == 30

\* f"{title} {description} {full_snippet}".lower(): with a description present the
\* words of the three parts, a single space between any two
CombinedText(signal) == signal.title \o signal.description \o signal.full_snippet

Reject(reason) == [valid |-> FALSE, reason |-> reason]
Passed == [valid |-> TRUE, reason |-> "Passed"]

\* the language check is strict for a lower-credibility source or a text without metric
NeedsStrictLanguageCheck(source, combined_text) ==
    source \in LOWER_CREDIBILITY_SOURCES \/ ~SpecificMetricFound(combined_text)

\* the minimum length is waived for a high-credibility source
TooShortEverywhere(source, combined_text) ==
    TextLen(combined_text) < min_content_length
TooShort(source, combined_text) ==
    source \notin HIGH_CREDIBILITY_SOURCES /\ TextLen(combined_text) < min_content_length

\* the checks in another order: content length before language certainty
is_valid_signal_length_first(signal) ==
    LET description == signal.description
        source == SourceLower(signal.source)
        source_url == signal.source_url
        combined_text == CombinedText(signal)
        signal_type == signal.signal_type
    IN  IF description = <<>> \/ source = ""
        THEN Reject("Missing description or source")
        ELSE IF source \in LOWER_CREDIBILITY_SOURCES /\ ~Truthy(source_url)
        THEN Reject("Missing source_url for lower credibility source")
        ELSE IF TooShort(source, combined_text)
        THEN Reject("Content too short")
        ELSE IF NeedsStrictLanguageCheck(source, combined_text)
                /\ VaguePhraseFound(combined_text)
        THEN Reject("Vague/uncertain language detected")
        ELSE IF signal_type = Name("funding_round")
                /\ source \notin HIGH_CREDIBILITY_SOURCES
                /\ ~FundingKeywordFound(combined_text)
        THEN Reject("Funding signal lacks currency symbol or typical funding keywords.")
        ELSE IF signal_type = Name("hiring_activity")
                /\ source \notin HIGH_CREDIBILITY_SOURCES
                /\ ~HiringKeywordFound(combined_text)
        THEN Reject("Hiring signal lacks specific hiring keywords or numbers.")
        ELSE Passed

\* SignalValidationFilter._is_valid_signal: (is_valid, reason)
is_valid_signal(signal) ==
    LET description == signal.description
        source == SourceLower(signal.source)
        source_url == signal.source_url
        combined_text == CombinedText(signal)
        signal_type == signal.signal_type
    IN  IF description = <<>> \/ source = ""
        THEN Reject("Missing description or source")
        ELSE IF source \in LOWER_CREDIBILITY_SOURCES /\ ~Truthy(source_url)
        THEN Reject("Missing source_url for lower credibility source")
        ELSE IF NeedsStrictLanguageCheck(source, combined_text)
                /\ VaguePhraseFound(combined_text)
        THEN Reject("Vague/uncertain language detected")
        ELSE IF TooShort(source, combined_text)
        THEN Reject("Content too short")
        ELSE IF signal_type = Name("funding_round")
                /\ source \notin HIGH_CREDIBILITY_SOURCES
                /\ ~FundingKeywordFound(combined_text)
        THEN Reject("Funding signal lacks currency symbol or typical funding keywords.")
        ELSE IF signal_type = Name("hiring_activity")
                /\ source \notin HIGH_CREDIBILITY_SOURCES
                /\ ~HiringKeywordFound(combined_text)
        THEN Reject("Hiring signal lacks specific hiring keywords or numbers.")
        ELSE Passed

\* ------------------------------------------------------------------------
\* The validator driven on its own
\* ------------------------------------------------------------------------
DescriptionWords ==
    {"company", "might", "be", "raised", "$10m", "us$10m", "50", "positions", "hiring"}
Descriptions == SeqsUpTo(DescriptionWords, MaxWords)
Titles == {<<>>, <<"internationalization", "expansion">>}
Snippets == {<<>>, <<"be", "hiring">>}
Sources == {Absent, Name(""), Name("TechCrunch"), Name("techcrunch"), Name("startbase"),
            Name("linkedin")}
sUrl == <<"h","t","t","p",":","/","/","x">>
SourceUrls == {None, PyStr(<<>>), PyStr(sUrl)}
SignalTypes == {None, Name("funding_round"), Name("hiring_activity"),
                Name("funding_news"), Name("company_growth")}

CandidateSignals ==
    [signal_type : SignalTypes, description : Descriptions, title : Titles,
     full_snippet : Snippets, source : Sources, source_url : SourceUrls]

InitValidator ==
    /\ phase = "idle"
    /\ args = NoArgs
    /\ origin = [via |-> "none"]
    /\ frame = FreshFrame
    /\ result = NoResult
    /\ result2 = NoResult
    /\ sig = NoSignal
    /\ verdict = NoVerdict
    /\ run = NoRun

Validate ==
    /\ phase = "idle"
    /\ \E signal \in CandidateSignals :
         /\ sig' = signal
         /\ verdict' = is_valid_signal(signal)
    /\ phase' = "validated"
    /\ UNCHANGED <<args, origin, frame, result, result2, run>>

NextValidator == Validate

SpecValidator == InitValidator /\ [][NextValidator]_vars

\* ------------------------------------------------------------------------
\* Properties of the validator
\* ------------------------------------------------------------------------
Validated == phase = "validated"

\* C9: a signal of a lower-credibility source without source_url is rejected whatever
\* its text; a signal of a high-credibility source with a description, a source_url
\* and no hedge phrase is accepted whatever its length and signal type.
C9_ValidatorExamples ==
    Validated =>
      /\ (SourceLower(sig.source) \in LOWER_CREDIBILITY_SOURCES /\ ~Truthy(sig.source_url))
            => ~verdict.valid
      /\ (/\ SourceLower(sig.source) \in HIGH_CREDIBILITY_SOURCES
          /\ sig.description # <<>>
          /\ Truthy(sig.source_url)
          /\ ~VaguePhraseFound(CombinedText(sig)))
            => verdict.valid

\* a short funding claim without keyword, accepted because techcrunch reports it
C9_Witness ==
    /\ Validated
    /\ SourceLower(sig.source) = "techcrunch"
    /\ sig.signal_type = Name("funding_round")
    /\ sig.description = <<"company">>
    /\ sig.title = <<>> /\ sig.full_snippet = <<>>
    /\ Truthy(sig.source_url)
    /\ verdict.valid

\* the five rules as the specification states them
Rule1Fails(s) == s.description = <<>> \/ SourceLower(s.source) = ""
Rule2Fails(s) == SourceLower(s.source) \in LOWER_CREDIBILITY_SOURCES /\ ~Truthy(s.source_url)
Rule3Fails(s) ==
    /\ (SourceLower(s.source) \in LOWER_CREDIBILITY_SOURCES
        \/ ~SpecificMetricFound(CombinedText(s)))
    /\ VaguePhraseFound(CombinedText(s))
Rule4Fails(s) ==
    /\ TextLen(CombinedText(s)) < 30
    /\ SourceLower(s.source) \notin HIGH_CREDIBILITY_SOURCES
Rule5FundingFails(s) ==
    /\ s.signal_type = Name("funding_round")
    /\ SourceLower(s.source) \notin HIGH_CREDIBILITY_SOURCES
    /\ ~FundingKeywordFound(CombinedText(s))
Rule5HiringFails(s) ==
    /\ s.signal_type = Name("hiring_activity")
    /\ SourceLower(s.source) \notin HIGH_CREDIBILITY_SOURCES
    /\ ~HiringKeywordFound(CombinedText(s))

FirstFailure(s) ==
    IF Rule1Fails(s) THEN "Missing description or source"
    ELSE IF Rule2Fails(s) THEN "Missing source_url for lower credibility source"
    ELSE IF Rule3Fails(s) THEN "Vague/uncertain language detected"
    ELSE IF Rule4Fails(s) THEN "Content too short"
    ELSE IF Rule5FundingFails(s)
    THEN "Funding signal lacks currency symbol or typical funding keywords."
    ELSE IF Rule5HiringFails(s)
    THEN "Hiring signal lacks specific hiring keywords or numbers."
    ELSE "Passed"

ClaimMetricNouns == {"employee", "employees", "position", "positions", "office",
                     "offices", "user", "users"}
ClaimMetricFound(text) ==
    \/ \E i \in DOMAIN text : text[i] \in CurrencyWords
    \/ \E pr \in AdjacentPairs(text) : pr[1] \in DigitWords /\ pr[2] \in ClaimMetricNouns

HedgeReason == "Vague/uncertain language detected"

\* C11: a signal whose combined text holds a hedge phrase is rejected whenever its
\* source is lower-credibility or its text holds no specific metric (a currency
\* amount such as "$10m", a count of employees/positions/offices/users); the hedge
\* is tolerated when the source is not lower-credibility and a metric is present.
C11_HedgeRule ==
    (Validated /\ VaguePhraseFound(CombinedText(sig))) =>
      /\ (\/ SourceLower(sig.source) \in LOWER_CREDIBILITY_SOURCES
          \/ ~ClaimMetricFound(CombinedText(sig)))
            => ~verdict.valid
      /\ (/\ ~Rule1Fails(sig)
          /\ SourceLower(sig.source) \notin LOWER_CREDIBILITY_SOURCES
          /\ ClaimMetricFound(CombinedText(sig)))
            => verdict.reason # HedgeReason

\* the half of C11 the validator keeps: a hedge without tolerated metric is rejected
C11_HedgeRejected ==
    (/\ Validated
     /\ VaguePhraseFound(CombinedText(sig))
     /\ (\/ SourceLower(sig.source) \in LOWER_CREDIBILITY_SOURCES
         \/ ~ClaimMetricFound(CombinedText(sig))))
    => ~verdict.valid

\* signal types that denote funding, and hiring
FundingTypes == {Name("funding_round"), Name("funding_news")}
HiringTypes == {Name("hiring_activity")}

\* C12: for a source that is not high-credibility, a funding signal whose text has no
\* currency symbol and no funding keyword is rejected, and a hiring signal whose
\* text has no hiring keyword and no count is rejected, for every signal type that
\* denotes funding or hiring ("funding_news" included).
C12_TypeGates ==
    (Validated /\ SourceLower(sig.source) \notin HIGH_CREDIBILITY_SOURCES) =>
      /\ (sig.signal_type \in FundingTypes /\ ~FundingKeywordFound(CombinedText(sig)))
            => ~verdict.valid
      /\ (sig.signal_type \in HiringTypes /\ ~HiringKeywordFound(CombinedText(sig)))
            => ~verdict.valid

\* ------------------------------------------------------------------------
\* SignalValidationFilter.filter_signals driven on its own
\* ------------------------------------------------------------------------
\* signal['validation_status'] = 'passed': the accepted dict itself is tagged
Mark(signal) ==
    [k \in DOMAIN signal \cup {"validation_status"} |->
        IF k = "validation_status" THEN "passed" ELSE signal[k]]

Accepted(signal) == is_valid_signal(signal).valid

\* a loop that stops at the first rejected signal
RECURSIVE filter_signals_until_reject(_)
filter_signals_until_reject(signals) ==
    IF signals = <<>> THEN <<>>
    ELSE IF Accepted(Head(signals))
    THEN <<Mark(Head(signals))>> \o filter_signals_until_reject(Tail(signals))
    ELSE <<>>

\* the list filter_signals returns
RECURSIVE filter_signals(_)
filter_signals(signals) ==
    IF signals = <<>> THEN <<>>
    ELSE IF Accepted(Head(signals))
    THEN <<Mark(Head(signals))>> \o filter_signals(Tail(signals))
    ELSE filter_signals(Tail(signals))

\* the caller's list after the call: its accepted dicts carry the tag
SignalsAfter(signals) ==
    [i \in DOMAIN signals |->
        IF Accepted(signals[i]) THEN Mark(signals[i]) ELSE signals[i]]

PoolSignal(type, description, title, source, source_url) ==
    [signal_type |-> type, description |-> description, title |-> title,
     full_snippet |-> <<>>, source |-> source, source_url |-> source_url]
SignalPool ==
    {PoolSignal(Name("funding_round"), <<"company", "raised">>, <<>>,
                Name("techcrunch"), PyStr(sUrl)),
     PoolSignal(Name("company_growth"), <<"company", "hiring">>, <<>>,
                Name("techcrunch"), None),
     PoolSignal(Name("company_growth"), <<"company", "hiring">>, <<>>,
                Name("startbase"), None),
     PoolSignal(Name("company_growth"), <<"company", "might", "be", "hiring">>,
                <<"internationalization", "expansion">>, Name("linkedin"), PyStr(sUrl)),
     PoolSignal(Name("hiring_activity"), <<"company", "hiring">>,
                <<"internationalization", "expansion">>, Name("linkedin"), PyStr(sUrl)),
     PoolSignal(Name("hiring_activity"), <<"company", "hiring">>, <<>>,
                Name("linkedin"), PyStr(sUrl))}
MaxList == 3
SignalInputs == SeqsUpTo(SignalPool, MaxList)

InitFilter ==
    /\ phase = "idle"
    /\ args = NoArgs
    /\ origin = [via |-> "none"]
    /\ frame = FreshFrame
    /\ result = NoResult
    /\ result2 = NoResult
    /\ sig = NoSignal
    /\ verdict = NoVerdict
    /\ run = NoRun

\* filter_signals(signals)
FilterSignals ==
    /\ phase = "idle"
    /\ \E signals \in SignalInputs :
         /\ args' = [kind |-> "signals", signals |-> signals]
         /\ result' = [outcome |-> "filtered",
                       validated_signals |-> filter_signals(signals),
                       signals |-> SignalsAfter(signals)]
    /\ phase' = "filtered"
    /\ UNCHANGED <<origin, frame, result2, sig, verdict, run>>

\* filter_signals applied to the list it returned
FilterAgain ==
    /\ phase = "filtered"
    /\ result2' = [outcome |-> "filtered",
                   validated_signals |-> filter_signals(result.validated_signals),
                   signals |-> SignalsAfter(result.validated_signals)]
    /\ phase' = "refiltered"
    /\ UNCHANGED <<args, origin, frame, result, sig, verdict, run>>

NextFilter == FilterSignals \/ FilterAgain

SpecFilter == InitFilter /\ [][NextFilter]_vars

Filtered == phase \in {"filtered", "refiltered"}

\* C13: no signal whose source_url is missing or null appears in the list
\* filter_signals returns, whatever its source.
C13_NoUrlFiltered ==
    Filtered =>
      \A i \in DOMAIN result.validated_signals :
          Truthy(result.validated_signals[i].source_url)

\* C14: filter_signals returns exactly the input signals the single-record validator
\* accepts, in input order; keeping a signal does not depend on the rest of the
\* list (filtering a concatenation is concatenating the filtered parts), and
\* filtering the returned list again returns it unchanged.
C14_FilterSubset ==
    /\ Filtered =>
         /\ result.validated_signals = SelectSeq(result.signals, Accepted)
         /\ Len(result.validated_signals)
              = Cardinality({i \in DOMAIN args.signals : Accepted(args.signals[i])})
         /\ \A k \in 0..Len(args.signals) :
              result.validated_signals
                = filter_signals(SubSeq(args.signals, 1, k))
                  \o filter_signals(SubSeq(args.signals, k + 1, Len(args.signals)))
    /\ phase = "refiltered" => result2.validated_signals = result.validated_signals

\* an accepted signal, a rejected one and the accepted one again: two are returned
C14_Witness ==
    /\ phase = "refiltered"
    /\ Len(args.signals) = 3
    /\ Accepted(args.signals[1]) /\ ~Accepted(args.signals[2])
    /\ args.signals[3] = args.signals[1]
    /\ Len(result2.validated_signals) = 2

\* ------------------------------------------------------------------------
\* SignalValidationFilter.get_signal_confidence; scores are in tenths
\* ------------------------------------------------------------------------
\* re.search(r'\b\d+%|\$\d+[mk]?\b|\b\d+\s+(?:employees|positions|offices)\b', text)
ConfidenceAmountWords == {"$10m", "us$10m", "10%"}
ConfidenceNouns == {"employees", "positions", "offices"}
ConfidenceMetricFound(text) ==
    \/ \E i \in DOMAIN text : text[i] \in ConfidenceAmountWords
    \/ \E pr \in AdjacentPairs(text) : pr[1] \in DigitWords /\ pr[2] \in ConfidenceNouns

\* details: a dict of the keys snippet, detected_keywords (its length) and timestamp
Details(snippet, detected_keywords, timestamp) ==
    [kind |-> "details", snippet |-> snippet, detected_keywords |-> detected_keywords,
     timestamp |-> timestamp]
DetailsTruthy(details) ==
    /\ details.kind = "details"
    /\ ~(/\ details.snippet.kind = "absent"
         /\ details.detected_keywords.kind = "absent"
         /\ details.timestamp.kind = "absent")

\* a timestamp value: what it is, and whether it lies within the last 30 days
Timestamp(form, recent) == [kind |-> "timestamp", form |-> form, recent |-> recent]
TimestampTruthy(ts) == ts.kind = "timestamp" /\ ts.form # "empty"

\* the try block: "raises" for an exception the except clause does not name
TimestampPoints(ts) ==
    CASE ts.form = "naive" -> IF ts.recent THEN 3 ELSE 0
      [] ts.form = "aware" -> 0      \* naive now() minus aware: TypeError, passed over
      [] ts.form = "text" -> 0       \* fromisoformat: ValueError, passed over
      [] ts.form = "number" -> 0     \* int has no replace(): AttributeError, raised
TimestampRaises(ts) == ts.form = "number"

WordsOf(v) == IF v.kind = "words" THEN v.w ELSE <<>>
Words(w) == [kind |-> "words", w |-> w]

\* SignalValidationFilter.get_signal_confidence: the score, or the exception raised
get_signal_confidence(signal) ==
    LET details == signal.details
        url_points == IF Truthy(signal.source_url) THEN 3 ELSE 0
    IN  IF ~DetailsTruthy(details)
        THEN [outcome |-> "ok", score |-> Min(url_points, 10)]
        ELSE LET text == signal.description \o WordsOf(details.snippet)
                 keywords == IF details.detected_keywords.kind = "int"
                             THEN details.detected_keywords.n ELSE 0
                 metric_points == IF ConfidenceMetricFound(text) THEN 2 ELSE 0
                 keyword_points == IF keywords >= 3 THEN 2 ELSE 0
             IN  IF TimestampTruthy(details.timestamp)
                    /\ TimestampRaises(details.timestamp)
                 THEN Raised("AttributeError")
                 ELSE [outcome |-> "ok",
                       score |-> Min(url_points + metric_points + keyword_points
                                     + (IF TimestampTruthy(details.timestamp)
                                        THEN TimestampPoints(details.timestamp)
                                        ELSE 0),
                                     10)]

MaxKeywords == 3
ConfidenceDescriptions == {<<"company">>, <<"50", "employees">>, <<"$10m">>, <<"10%">>}
ConfidenceSnippets == {Absent, Words(<<>>), Words(<<"50", "positions">>)}
KeywordCounts == {Absent} \cup {PyInt(n) : n \in 0..MaxKeywords}
Timestamps ==
    {Absent, Timestamp("empty", FALSE), Timestamp("naive", TRUE),
     Timestamp("naive", FALSE), Timestamp("aware", TRUE), Timestamp("aware", FALSE),
     Timestamp("text", FALSE), Timestamp("number", TRUE)}
DetailsValues ==
    {Absent}
    \cup {Details(sn, k, ts) : sn \in ConfidenceSnippets, k \in KeywordCounts,
                               ts \in Timestamps}
ConfidenceSignals ==
    [description : ConfidenceDescriptions, source_url : SourceUrls,
     details : DetailsValues]

InitConfidence ==
    /\ phase = "idle"
    /\ args = NoArgs
    /\ origin = [via |-> "none"]
    /\ frame = FreshFrame
    /\ result = NoResult
    /\ result2 = NoResult
    /\ sig = NoSignal
    /\ verdict = NoVerdict
    /\ run = NoRun

GetConfidence ==
    /\ phase = "idle"
    /\ \E signal \in ConfidenceSignals :
         /\ args' = [kind |-> "signal", signal |-> signal]
         /\ result' = get_signal_confidence(signal)
    /\ phase' = "rated"
    /\ UNCHANGED <<origin, frame, result2, sig, verdict, run>>

NextConfidence == GetConfidence

SpecConfidence == InitConfidence /\ [][NextConfidence]_vars

\* the four features of a signal as the confidence rule names them
HasUrl(signal) == Truthy(signal.source_url)
HasMetric(signal) ==
    ConfidenceMetricFound(
        signal.description
        \o WordsOf(IF signal.details.kind = "details" THEN signal.details.snippet
                   ELSE Absent))
HasKeywords(signal) ==
    /\ signal.details.kind = "details"
    /\ signal.details.detected_keywords.kind = "int"
    /\ signal.details.detected_keywords.n >= 3
HasRecentTimestamp(signal) ==
    /\ signal.details.kind = "details"
    /\ signal.details.timestamp.kind = "timestamp"
    /\ signal.details.timestamp.form \in {"naive", "aware"}
    /\ signal.details.timestamp.recent

\* C16: get_signal_confidence returns the sum of four independent increments,
\* +0.3 for a source_url, +0.2 for a specific metric in the text, +0.2 for at
\* least 3 detected keywords, +0.3 for a parseable timestamp at most 30 days old;
\* the result is in [0, 1], all four features give more than 0.5, and an
\* unparseable timestamp adds nothing and raises no error.
C16_Confidence ==
    phase = "rated" =>
      /\ result.outcome = "ok"
      /\ result.score \in 0..10
      /\ result.score
           = (IF HasUrl(args.signal) THEN 3 ELSE 0)
             + (IF HasMetric(args.signal) THEN 2 ELSE 0)
             + (IF HasKeywords(args.signal) THEN 2 ELSE 0)
             + (IF HasRecentTimestamp(args.signal) THEN 3 ELSE 0)

\* ------------------------------------------------------------------------
\* tools/network_tool.py: DomainMatchTool.  Strings are sequences of characters.
\* ------------------------------------------------------------------------
cHttp == <<"h", "t", "t", "p", ":", "/", "/">>
cHttps == <<"h", "t", "t", "p", "s", ":", "/", "/">>
cWww == <<"w", "w", "w", ".">>
cWWW == <<"W", "W", "W", ".">>
cAcme == <<"a", "c", "m", "e", ".", "c", "o", "m">>
cAcmeCap == <<"A", "c", "m", "e", ".", "c", "o", "m">>
cMailAcme == <<"m", "a", "i", "l", ".", "a", "c", "m", "e", ".", "c", "o", "m">>
cCom == <<"c", "o", "m">>
cOther == <<"o", "t", "h", "e", "r", ".", "i", "o">>
cPath == <<"/", "a", "b", "o", "u", "t">>
cBadHost == <<"[", "a", "c", "m", "e">>
cAt == <<"@">>

StartsWith(s, prefix) ==
    Len(s) >= Len(prefix) /\ SubSeq(s, 1, Len(prefix)) = prefix
DropPrefix(s, n) == SubSeq(s, n + 1, Len(s))
Contains(s, c) == \E i \in DOMAIN s : s[i] = c

\* the text before the first character of stops, all of it when there is none
RECURSIVE UpTo(_, _)
UpTo(s, stops) ==
    IF s = <<>> \/ Head(s) \in stops THEN <<>> ELSE <<Head(s)>> \o UpTo(Tail(s), stops)

\* urlparse(url).netloc of a url that starts with http:// or https://
Netloc(url) ==
    UpTo(DropPrefix(url, IF StartsWith(url, cHttps) THEN Len(cHttps) ELSE Len(cHttp)),
         {"/", "?", "#"})
\* urlparse raises ValueError("Invalid IPv6 URL") for an unbalanced bracket
UrlparseRaises(url) ==
    LET netloc == Netloc(url)
    IN  Contains(netloc, "[") # Contains(netloc, "]")

\* removing 'www.' whatever the case of its letters
extract_domain_from_url_any_case(url) ==
    IF ~Truthy(url) THEN None
    ELSE LET with_scheme == IF StartsWith(url.s, cHttp) \/ StartsWith(url.s, cHttps)
                            THEN url.s ELSE cHttp \o url.s
             lowered == StrLower(Netloc(with_scheme))
             domain == IF StartsWith(lowered, cWww) THEN DropPrefix(lowered, 4)
                       ELSE lowered
         IN  IF UrlparseRaises(with_scheme) THEN None
             ELSE IF domain # <<>> THEN PyStr(domain) ELSE None

\* DomainMatchTool._extract_domain_from_url
extract_domain_from_url(url) ==
    IF ~Truthy(url) THEN None
    ELSE LET with_scheme == IF StartsWith(url.s, cHttp) \/ StartsWith(url.s, cHttps)
                            THEN url.s ELSE cHttp \o url.s
             netloc == Netloc(with_scheme)
             domain == IF StartsWith(netloc, cWww) THEN DropPrefix(netloc, 4)
                       ELSE netloc
         IN  IF UrlparseRaises(with_scheme) THEN None
             ELSE IF domain # <<>> THEN PyStr(StrLower(domain)) ELSE None

\* DomainMatchTool._extract_domain_from_email: email.split('@')[1].lower()
extract_domain_from_email(email) ==
    IF ~Truthy(email) \/ ~Contains(email.s, "@") THEN None
    ELSE LET after == DropPrefix(email.s, Len(UpTo(email.s, {"@"})) + 1)
             domain == UpTo(after, {"@"})
         IN  IF domain # <<>> THEN PyStr(StrLower(domain)) ELSE None

\* the email asked before the website
lead_domain_email_first(lead_website, lead_email) ==
    LET from_email == IF Truthy(lead_email) THEN extract_domain_from_email(lead_email)
                      ELSE None
    IN  IF ~Truthy(from_email) /\ Truthy(lead_website)
        THEN extract_domain_from_url(lead_website)
        ELSE from_email

\* DomainMatchTool._run, the lead domain: the website first, then the email
lead_domain_of(lead_website, lead_email) ==
    LET from_website == IF Truthy(lead_website) THEN extract_domain_from_url(lead_website)
                        ELSE None
    IN  IF ~Truthy(from_website) /\ Truthy(lead_email)
        THEN extract_domain_from_email(lead_email)
        ELSE from_website

EndsWith(s, suffix) ==
    Len(s) >= Len(suffix) /\ SubSeq(s, Len(s) - Len(suffix) + 1, Len(s)) = suffix

MatchInfo(contact, contact_domain) ==
    [name |-> Get(contact.name, PyStr(<<"N", "/", "A">>)), email |-> contact.email,
     matched_domain |-> contact_domain]

\* a scan that takes a contact on a subdomain of the lead domain as a match
RECURSIVE matching_contacts_suffix(_, _)
matching_contacts_suffix(contacts_data, lead_domain) ==
    IF contacts_data = <<>> THEN <<>>
    ELSE LET contact == Head(contacts_data)
             rest == matching_contacts_suffix(Tail(contacts_data), lead_domain)
         IN  IF ~Truthy(contact.email) \/ contact.email.kind # "str" THEN rest
             ELSE LET contact_domain == extract_domain_from_email(contact.email)
                  IN  IF Truthy(contact_domain)
                         /\ EndsWith(contact_domain.s, lead_domain.s)
                      THEN <<MatchInfo(contact, contact_domain)>> \o rest
                      ELSE rest

\* DomainMatchTool._run, the loop over contacts_data
RECURSIVE matching_contacts(_, _)
matching_contacts(contacts_data, lead_domain) ==
    IF contacts_data = <<>> THEN <<>>
    ELSE LET contact == Head(contacts_data)
             rest == matching_contacts(Tail(contacts_data), lead_domain)
         IN  IF ~Truthy(contact.email) \/ contact.email.kind # "str" THEN rest
             ELSE LET contact_domain == extract_domain_from_email(contact.email)
                  IN  IF Truthy(contact_domain) /\ contact_domain = lead_domain
                      THEN <<MatchInfo(contact, contact_domain)>> \o rest
                      ELSE rest

\* DomainMatchTool._run: the message returned and what it reports
domain_match_run(contacts_data, lead_website, lead_email) ==
    LET lead_domain == lead_domain_of(lead_website, lead_email)
    IN  IF ~Truthy(lead_domain)
        THEN [outcome |-> "ok", message |-> "Failed to determine lead domain",
              lead_domain |-> None, matching_contacts |-> <<>>]
        ELSE LET found == matching_contacts(contacts_data, lead_domain)
             IN  [outcome |-> "ok",
                  message |-> IF found = <<>> THEN "No contacts found" ELSE "Found",
                  lead_domain |-> lead_domain, matching_contacts |-> found]

\* lead websites and emails
Schemes == {<<>>, cHttp, cHttps}
WwwPrefixes == {<<>>, cWww, cWWW}
Hosts == {cAcme, cAcmeCap}
Paths == {<<>>, cPath}
LeadWebsites ==
    {None, PyStr(<<>>), PyStr(cHttp), PyStr(cPath), PyStr(cHttp \o cBadHost)}
    \cup {PyStr(sc \o w \o h \o pa) :
            sc \in Schemes, w \in WwwPrefixes, h \in Hosts, pa \in Paths}
cBob == <<"b", "o", "b">>
LeadEmails ==
    {None, PyStr(<<>>), PyStr(cBob), PyStr(cBob \o cAt),
     PyStr(cBob \o cAt \o cAcmeCap), PyStr(cBob \o cAt \o cOther)}

\* the roster: contacts with good, foreign, malformed and missing emails
Contact(name, email) == [name |-> name, email |-> email]
ContactPool ==
    {Contact(PyStr(<<"x">>), PyStr(<<"x">> \o cAt \o cAcme)),
     Contact(Absent, PyStr(<<"y">> \o cAt \o cAcmeCap)),
     Contact(PyStr(<<"m">>), PyStr(<<"m">> \o cAt \o cMailAcme)),
     Contact(PyStr(<<"p">>), PyStr(<<"p">> \o cAt \o cCom)),
     Contact(PyStr(<<"o">>), PyStr(<<"o">> \o cAt \o cOther)),
     Contact(PyStr(<<"n">>), PyStr(cBob)),
     Contact(PyStr(<<"i">>), PyInt(5)),
     Contact(PyStr(<<"a">>), Absent)}
MaxContacts == 2
Rosters == SeqsUpTo(ContactPool, MaxContacts)

InitMatch ==
    /\ phase = "idle"
    /\ args = NoArgs
    /\ origin = [via |-> "none"]
    /\ frame = FreshFrame
    /\ result = NoResult
    /\ result2 = NoResult
    /\ sig = NoSignal
    /\ verdict = NoVerdict
    /\ run = NoRun

\* the website decides (or fails to), the email is whatever it is
MatchByWebsite ==
    /\ phase = "idle"
    /\ \E contacts_data \in Rosters, lead_website \in LeadWebsites :
         /\ args' = [kind |-> "match", contacts_data |-> contacts_data,
                     lead_website |-> lead_website, lead_email |-> None]
         /\ result' = domain_match_run(contacts_data, lead_website, None)
    /\ phase' = "matched"
    /\ UNCHANGED <<origin, frame, result2, sig, verdict, run>>

\* an email is given too
MatchByEmail ==
    /\ phase = "idle"
    /\ \E contacts_data \in Rosters, lead_email \in LeadEmails \ {None},
          lead_website \in {None, PyStr(cPath), PyStr(cWWW \o cAcme), PyStr(cOther)} :
         /\ args' = [kind |-> "match", contacts_data |-> contacts_data,
                     lead_website |-> lead_website, lead_email |-> lead_email]
         /\ result' = domain_match_run(contacts_data, lead_website, lead_email)
    /\ phase' = "matched"
    /\ UNCHANGED <<origin, frame, result2, sig, verdict, run>>

NextMatch == MatchByWebsite \/ MatchByEmail

SpecMatch == InitMatch /\ [][NextMatch]_vars

Matched == phase = "matched"

\* C17: with no email given, the lead domain is the website's host lower-cased
\* with a leading 'www.' removed in any letter case, and the matches are the
\* roster entries of that domain; so 'http://WWW.Acme.com', 'www.acme.com',
\* 'https://Acme.com' and 'acme.com' all find x@acme.com.
C17_DomainInsensitive ==
    Matched /\ args.lead_email = None =>
        LET expected == extract_domain_from_url_any_case(args.lead_website)
        IN  /\ result.lead_domain = expected
            /\ Truthy(expected) =>
                 result.matching_contacts = matching_contacts(args.contacts_data, expected)

\* what the website and the email yield on their own
WebsiteDomain == IF Truthy(args.lead_website) THEN extract_domain_from_url(args.lead_website) ELSE None
EmailDomain == IF Truthy(args.lead_email) THEN extract_domain_from_email(args.lead_email) ELSE None

\* C18: the lead domain is the website's domain when the website yields one,
\* otherwise the email's domain, otherwise undetermined; an undetermined run
\* returns the failure message with no matches and does not raise, whatever
\* the roster holds.
C18_LeadDomain ==
    Matched =>
        /\ result.outcome = "ok"
        /\ Truthy(WebsiteDomain) => result.lead_domain = WebsiteDomain
        /\ ~Truthy(WebsiteDomain) /\ Truthy(EmailDomain) => result.lead_domain = EmailDomain
        /\ ~Truthy(WebsiteDomain) /\ ~Truthy(EmailDomain) =>
             /\ result.lead_domain = None
             /\ result.message = "Failed to determine lead domain"
             /\ result.matching_contacts = <<>>

\* a website that is given and yields nothing, an email that decides, and a
\* roster entry found under the email's domain
C18_Witness ==
    /\ Matched
    /\ args.lead_website = PyStr(cPath)
    /\ args.lead_email = PyStr(cBob \o cAt \o cAcmeCap)
    /\ result.lead_domain = PyStr(cAcme)
    /\ Len(result.matching_contacts) = 1

\* the lower-cased part of a roster email after '@', <<>> when there is none
EmailDomainOf(contact) ==
    IF contact.email.kind = "str" /\ Contains(contact.email.s, "@")
    THEN StrLower(DropPrefix(contact.email.s, Len(UpTo(contact.email.s, {"@"})) + 1))
    ELSE <<>>
SameDomain(contact) == EmailDomainOf(contact) # <<>> /\ EmailDomainOf(contact) = result.lead_domain.s
Emails(contacts) == [i \in 1..Len(contacts) |-> contacts[i].email]

\* C19: with the lead domain determined, the matches are the roster entries, in
\* roster order, whose email domain equals the lead domain; entries on another
\* domain (a subdomain or parent included) and entries without a usable email
\* are left out and the scan goes on.
C19_ExactMatches ==
    Matched /\ Truthy(result.lead_domain) =>
        /\ Emails(result.matching_contacts) = Emails(SelectSeq(args.contacts_data, SameDomain))
        /\ \A i \in 1..Len(result.matching_contacts) :
             result.matching_contacts[i].matched_domain = result.lead_domain

\* a subdomain entry and an entry without a string email are passed over and
\* the entry after them is found
C19_Witness ==
    /\ Matched
    /\ result.lead_domain = PyStr(cAcme)
    /\ Len(args.contacts_data) = 2
    /\ \/ args.contacts_data[1].email = PyStr(<<"m">> \o cAt \o cMailAcme)
       \/ args.contacts_data[1].email = PyInt(5)
    /\ Emails(result.matching_contacts) = <<PyStr(<<"y">> \o cAt \o cAcmeCap)>>


\* ------------------------------------------------------------------------
\* LeadScoringCrew.process_single_lead (crew.py), one lead from call to return
\* ------------------------------------------------------------------------
PyFloat(tenths) == [kind |-> "float", tenths |-> tenths]
ErrorText(text) == [kind |-> "str", text |-> text]

\* an id as a string, and whether uuid.UUID() accepts it
IdStr(text, uuid) == [kind |-> "id", text |-> text, uuid |-> uuid]
UUIDRaises(id) == ~id.uuid
test_lead == IdStr("test_lead", FALSE)
test_user == IdStr("test_user", FALSE)
sLeadUuid == IdStr("lead-uuid", TRUE)
sUserUuid == IdStr("user-uuid", TRUE)

\* the dicts handed to process_single_lead
PyDict(id, d) == [kind |-> "dict", id |-> id, d |-> d]
EmptyDictValue == [kind |-> "dict0", id |-> Absent]
RunLeads ==
    {None, EmptyDictValue, PyDict(sLeadUuid, ExampleLead), PyDict(sLeadUuid, ColdLead),
     PyDict(Absent, ExampleLead)}
RunPrefs ==
    {None, EmptyDictValue, PyDict(sUserUuid, ExamplePrefs), PyDict(Absent, NoPrefs)}

\* what the validation task may leave in validate_task.output.raw
ValidatorPayloads ==
    [validated_positive_signals : WrappedLists(PositiveTypes),
     validated_negative_signals : WrappedLists(NegativeTypes),
     ai_confidence : {0, 2, 3, 10, 11}]
RawStr(form, payload) == [kind |-> "rawstr", form |-> form, payload |-> payload]
RawDict(payload) == [kind |-> "rawdict", form |-> "dict", payload |-> payload]
NoPayload ==
    [validated_positive_signals |-> <<>>, validated_negative_signals |-> <<>>,
     ai_confidence |-> 0]
ValidatorRawOutputs ==
    {None, RawStr("empty", NoPayload), RawStr("prose", NoPayload),
     [kind |-> "rawother", form |-> "other", payload |-> NoPayload]}
    \cup {RawStr("json", p) : p \in ValidatorPayloads}
    \cup {RawStr("fenced", p) : p \in ValidatorPayloads}
    \cup {RawDict(p) : p \in ValidatorPayloads}

\* ValidationTaskOutput.model_validate: ai_confidence is Field(ge=0.0, le=1.0)
ValidationTaskOutput(payload) ==
    IF payload.ai_confidence \in 0..10
    THEN [kind |-> "model", cls |-> "ValidationTaskOutput",
          validated_positive_signals |->
              PositiveSignalDetectionOutput(payload.validated_positive_signals),
          validated_negative_signals |->
              NegativeSignalDetectionOutput(payload.validated_negative_signals),
          ai_confidence |-> payload.ai_confidence]
    ELSE None

\* a parse that first takes the JSON out of a fenced block
ParseValidatorOutputRepaired(raw) ==
    IF raw.kind = "none" \/ (raw.kind = "rawstr" /\ raw.form = "empty") THEN None
    ELSE IF raw.kind = "rawstr"
    THEN IF raw.form \in {"json", "fenced"} THEN ValidationTaskOutput(raw.payload) ELSE None
    ELSE IF raw.kind = "rawdict" THEN ValidationTaskOutput(raw.payload)
    ELSE None

\* the parse of the validator's raw output; a failed parse leaves None
ParseValidatorOutput(raw) ==
    IF raw.kind = "none" \/ (raw.kind = "rawstr" /\ raw.form = "empty") THEN None
    ELSE IF raw.kind = "rawstr"
    THEN IF raw.form = "json" THEN ValidationTaskOutput(raw.payload) ELSE None
    ELSE IF raw.kind = "rawdict" THEN ValidationTaskOutput(raw.payload)
    ELSE None

EnrichmentOutputs == {None, [kind |-> "model", cls |-> "EnrichmentOutput"]}

LeadIdOf(lead_data) == Get(lead_data.id, test_lead)
UserIdOf(user_preferences) == Get(user_preferences.id, test_user)
KeepError(old, new) == IF old.kind = "none" THEN new ELSE old


LeadStatus(name) == [kind |-> "LeadStatus", name |-> name]
ErrorReturn(text, lead_id) == [outcome |-> "error", error |-> text, lead_id |-> lead_id]

\* _process_and_store_signals: how the call ends. The validated positive set is a
\* model, which is truthy and cannot be subscripted.
process_and_store_signals(validation_output, lead_id, user_id) ==
    IF ~IsInstance(validation_output, "ValidationTaskOutput") THEN "returned"
    ELSE IF UUIDRaises(lead_id) \/ UUIDRaises(user_id) THEN "ValueError"
    ELSE IF validation_output.validated_positive_signals.kind = "model" THEN "TypeError"
    ELSE "returned"

\* _update_lead_in_db: the payload handed to update_lead
update_payload_of(enrichment_output, scoring, ai_confidence) ==
    LET enriched == IsInstance(enrichment_output, "EnrichmentOutput")
        scored == scoring.outcome = "ok"
    IN  [is_enriched |-> enriched,
         enrichment_data |-> IF enriched THEN enrichment_output ELSE Absent,
         score |-> IF scored THEN PyInt(scoring.scoring_output.score) ELSE Absent,
         lead_status |-> IF scored
                         THEN LeadStatus(determine_lead_status(scoring.scoring_output.score))
                         ELSE Absent,
         ai_confidence |-> IF scored THEN PyFloat(scoring.scoring_output.ai_confidence)
                           ELSE None,
         scoring_details |-> IF scored THEN "component_scores"
                             ELSE "scoring failed or did not run"]

\* line 295 and Process.sequential: the tasks of the crew in the order they run
crew_tasks_validate_first == <<"validate", "enrich", "detect_positive", "detect_negative">>
crew_tasks == <<"enrich", "detect_positive", "detect_negative", "validate">>

\* lines 264-278: the id is read off lead_data before it is tested
EnterRun(lead_data, user_preferences) ==
    LET called == [NoRun EXCEPT !.lead_data = lead_data,
                                !.user_preferences = user_preferences]
    IN  IF lead_data.kind = "none"
        THEN [called EXCEPT !.pc = "done", !.ret = Raised("AttributeError")]
        ELSE IF ~Truthy(lead_data) \/ ~Truthy(user_preferences)
        THEN [called EXCEPT
                !.pc = "done",
                !.ret = ErrorReturn("Missing lead_data or user_preferences for testing.",
                                    LeadIdOf(lead_data))]
        ELSE [called EXCEPT !.pc = "entered"]

\* whether the factories called at lines 283-286 hand back their agents.
\* agents.py defines no positive_signal_detector, negative_signal_detector or
\* signal_validation_expert: with LeadScoringAgents as it stands line 284 raises
\* AttributeError and only FALSE happens; TRUE is the run with the three
\* factories supplied, as the pipeline's description has them.
AgentsBuilt == BOOLEAN

\* lines 280-300: agents and tasks are built, or building them raises
DefineRun(r, built) ==
    IF built THEN [r EXCEPT !.pc = "defined"]
    ELSE [r EXCEPT !.pc = "done",
                   !.ret = ErrorReturn("Failed to define agents/tasks", LeadIdOf(r.lead_data))]

\* lines 302-402: the crew runs its tasks in order; ran of them were started
\* when kickoff raised; otherwise the validator's raw output is parsed
KickoffRun(r, raised, ran, enrichment_output, raw) ==
    IF raised
    THEN [r EXCEPT !.pc = "executed",
                   !.stages = SubSeq(crew_tasks, 1, ran),
                   !.enrichment_output = enrichment_output,
                   !.crew_execution_error = ErrorText("Crew execution failed")]
    ELSE LET validation_output == ParseValidatorOutput(raw)
         IN  [r EXCEPT
                !.pc = "executed",
                !.stages = crew_tasks,
                !.enrichment_output = enrichment_output,
                !.validation_raw_output = raw,
                !.validation_output = validation_output,
                !.crew_execution_error =
                    IF validation_output.kind = "none"
                    THEN ErrorText("Signal validation failed to produce structured output.")
                    ELSE None]

\* lines 404-426: the validator's confidence is taken as it is and the engine is
\* called; scored is what the engine gave back
ScoredRun(r, scored) ==
    [r EXCEPT
       !.pc = "scored",
       !.stages = Append(@, "score"),
       !.ai_confidence_score = PyFloat(r.validation_output.ai_confidence),
       !.scoring = IF Returned(scored) THEN scored ELSE NoResult,
       !.crew_execution_error =
           IF Returned(scored) THEN @
           ELSE KeepError(@, ErrorText("Deterministic scoring failed"))]
\* lines 425-426: no validation output, no call of the engine
UnscoredRun(r) ==
    [r EXCEPT
       !.pc = "scored",
       !.crew_execution_error =
           KeepError(@, ErrorText(
             "Signal validation did not produce valid output for scoring."))]

\* lines 428-449: signals are stored, the lead is updated, outreach is triggered;
\* update_lead's own failure is caught inside _update_lead_in_db; requests is
\* not imported, so the trigger raises NameError
PersistRun(r, db_ok) ==
    LET lead_id == LeadIdOf(r.lead_data)
        user_id == UserIdOf(r.user_preferences)
        stored == process_and_store_signals(r.validation_output, lead_id, user_id)
        failed == [r EXCEPT
                     !.pc = "persisted",
                     !.stages = Append(@, "persist"),
                     !.crew_execution_error =
                         KeepError(@, ErrorText("Database update failed after processing"))]
    IN  IF stored # "returned" \/ UUIDRaises(lead_id) THEN failed
        ELSE [failed EXCEPT
                !.update_payload =
                    update_payload_of(r.enrichment_output, r.scoring, r.ai_confidence_score),
                !.written = db_ok]

\* lines 450-464
ReturnRun(r) ==
    [r EXCEPT
       !.pc = "done",
       !.ret =
         IF r.crew_execution_error.kind # "none"
         THEN ErrorReturn(r.crew_execution_error.text, LeadIdOf(r.lead_data))
         ELSE IF r.scoring.outcome = "ok"
         THEN [outcome |-> "score", dump |-> r.scoring.scoring_output]
         ELSE IF r.validation_output.kind = "model"
         THEN [outcome |-> "validation", dump |-> r.validation_output]
         ELSE ErrorReturn(
                "Processing finished with unexpected state (no score/validation output)",
                LeadIdOf(r.lead_data))]

Enter ==
    /\ run.pc = "idle"
    /\ \E lead_data \in RunLeads, user_preferences \in RunPrefs :
         run' = EnterRun(lead_data, user_preferences)
    /\ UNCHANGED <<phase, args, origin, frame, result, result2, sig, verdict>>

Define ==
    /\ run.pc = "entered"
    /\ \E built \in AgentsBuilt : run' = DefineRun(run, built)
    /\ UNCHANGED <<phase, args, origin, frame, result, result2, sig, verdict>>

\* an enrichment output is there only when the enrichment task has finished
Kickoff ==
    /\ run.pc = "defined"
    /\ \E raised \in BOOLEAN, ran \in 0..Len(crew_tasks),
          enrichment_output \in EnrichmentOutputs, raw \in ValidatorRawOutputs :
         /\ raised => raw = None /\ (enrichment_output # None => ran >= 2)
         /\ ~raised => ran = Len(crew_tasks)
         /\ run' = KickoffRun(run, raised, ran, enrichment_output, raw)
    /\ UNCHANGED <<phase, args, origin, frame, result, result2, sig, verdict>>

Score ==
    /\ run.pc = "executed"
    /\ IF IsInstance(run.validation_output, "ValidationTaskOutput")
       THEN \E r \in {calculate_deterministic_score(
                        run.lead_data.d, run.user_preferences.d,
                        run.validation_output.validated_positive_signals,
                        run.validation_output.validated_negative_signals,
                        run.validation_output.ai_confidence, frame)} :
              /\ frame' = r.left
              /\ run' = ScoredRun(run, r.ret)
       ELSE /\ frame' = frame
            /\ run' = UnscoredRun(run)
    /\ UNCHANGED <<phase, args, origin, result, result2, sig, verdict>>

Persist ==
    /\ run.pc = "scored"
    /\ \E db_ok \in BOOLEAN : run' = PersistRun(run, db_ok)
    /\ UNCHANGED <<phase, args, origin, frame, result, result2, sig, verdict>>

Return ==
    /\ run.pc = "persisted"
    /\ run' = ReturnRun(run)
    /\ UNCHANGED <<phase, args, origin, frame, result, result2, sig, verdict>>

InitPipeline ==
    /\ phase = "idle"
    /\ args = NoArgs
    /\ origin = [via |-> "none"]
    /\ frame = FreshFrame
    /\ result = NoResult
    /\ result2 = NoResult
    /\ sig = NoSignal
    /\ verdict = NoVerdict
    /\ run = NoRun

NextPipeline == Enter \/ Define \/ Kickoff \/ Score \/ Persist \/ Return

SpecPipeline == InitPipeline /\ [][NextPipeline]_vars

\* the validated signal set the engine consumed in this run holds no signal at all
ConsumedNoSignals ==
    /\ run.pc \in {"scored", "persisted", "done"}
    /\ IsInstance(run.validation_output, "ValidationTaskOutput")
    /\ run.validation_output.validated_positive_signals.detected_signals = <<>>
    /\ run.validation_output.validated_negative_signals.detected_signals = <<>>

\* C8: whenever the validated signal set consumed by the scoring engine holds zero
\* positive and zero negative signals, the confidence used for the score is at
\* least 0.3; in every run it lies in [0, 1].
C8_ConfidenceFloor ==
    /\ ConsumedNoSignals => run.ai_confidence_score.tenths >= 3
    /\ run.ai_confidence_score.kind = "float" => run.ai_confidence_score.tenths \in 0..10

Done == run.pc = "done"
RanStage(stage) == \E i \in DOMAIN run.stages : run.stages[i] = stage
\* an update was handed to update_lead and the database refused it
WriteRefused == run.update_payload # None /\ ~run.written
\* every stage did its work: the crew ran all its tasks, the validator's output
\* was decoded, the engine returned a score, the database refused nothing
AllStagesSucceeded ==
    /\ run.stages = crew_tasks \o <<"score", "persist">>
    /\ IsInstance(run.validation_output, "ValidationTaskOutput")
    /\ run.scoring.outcome = "ok"
    /\ ~WriteRefused

\* C21: process_single_lead returns and does not raise; what it returns is a
\* score breakdown or an error reason with the lead id; and a run in which
\* every stage succeeds returns the score breakdown.
C21_AlwaysOutcome ==
    Done =>
        /\ run.ret.outcome \in {"score", "error"}
        /\ AllStagesSucceeded => run.ret.outcome = "score"

\* the engine is handed the validator's model, takes len() of it at line 624
\* and raises: no run holds a computed score
EngineNeverReturns == run.scoring.outcome # "ok"

\* C23: once the engine has computed a score breakdown, the run returns that
\* breakdown, whatever happens to the writes after it.
C23_ScoreKept ==
    Done /\ run.scoring.outcome = "ok" =>
        run.ret = [outcome |-> "score", dump |-> run.scoring.scoring_output]

\* the crew run raised, or ran and left no validator output at all
UpstreamFailed ==
    /\ RanStage("persist")
    /\ \/ run.stages # crew_tasks \o <<"score", "persist">> /\ run.validation_raw_output = None
       \/ run.validation_raw_output = RawStr("empty", NoPayload)

\* C24: when the crew run errors or returns nothing, the lead is still scored
\* (with no signals, at the floor confidence) and the run returns no error.
C24_UpstreamTolerated ==
    Done /\ UpstreamFailed =>
        /\ run.scoring.outcome = "ok"
        /\ run.ret.outcome # "error"

\* strict decoding: a JSON string or a dict that ValidationTaskOutput accepts
StrictlyDecodable(raw) ==
    /\ raw.kind \in {"rawstr", "rawdict"}
    /\ raw.form \in {"json", "dict"}
    /\ raw.payload.ai_confidence \in 0..10

C26_FailFast ==
    Done /\ (~Truthy(run.lead_data) \/ ~Truthy(run.user_preferences)) =>
        /\ run.ret.outcome = "error"
        /\ run.stages = <<>>
        /\ run.update_payload = None

\* the order the stages are meant to have
StageOrder == <<"enrich", "detect_positive", "detect_negative", "validate", "score", "persist">>
StageRank(stage) == CHOOSE i \in DOMAIN StageOrder : StageOrder[i] = stage

Backtick == "backtick"
cFence == <<Backtick, Backtick, Backtick>>
cJson == <<"j", "s", "o", "n">>
IsSpace(c) == c \in {" ", "\n", "\t", "\r"}

\* the positions where sub starts in s, from position from on
Occurrences(s, sub, from) ==
    {i \in from..(Len(s) - Len(sub) + 1) : SubSeq(s, i, i + Len(sub) - 1) = sub}
Least(S) == CHOOSE x \in S : \A y \in S : x <= y
Greatest(S) == CHOOSE x \in S : \A y \in S : x >= y
\* str.find and str.rfind of one character, as positions from 1; 0 when absent
FindChar(s, c) == IF Contains(s, c) THEN Least({i \in DOMAIN s : s[i] = c}) ELSE 0
RFindChar(s, c) == IF Contains(s, c) THEN Greatest({i \in DOMAIN s : s[i] = c}) ELSE 0

\* the first position from from on that holds no whitespace
RECURSIVE SkipSpace(_, _)
SkipSpace(s, from) ==
    IF from <= Len(s) /\ IsSpace(s[from]) THEN SkipSpace(s, from + 1) ELSE from
\* the position after the last character before upto that is no whitespace
RECURSIVE BackSpace(_, _, _)
BackSpace(s, upto, floor) ==
    IF upto > floor /\ IsSpace(s[upto - 1]) THEN BackSpace(s, upto - 1, floor) ELSE upto
\* str.strip()
Strip(s) ==
    LET first == SkipSpace(s, 1)
    IN  IF first > Len(s) THEN <<>> ELSE SubSeq(s, first, BackSpace(s, Len(s) + 1, first) - 1)

\* re.search(json_pattern, text): fence, optional json, whitespace, a lazy
\* group, whitespace, fence. The match starts at the leftmost opening
\* fence, 'json' and whitespace taken greedily, the shortest group after them
\* that whitespace and a closing fence follow
FenceSearch(text) ==
    LET opening == Occurrences(text, cFence, 1)
        i0 == IF opening = {} THEN 0 ELSE Least(opening)
        p == IF StartsWith(DropPrefix(text, i0 + 2), cJson) THEN i0 + 7 ELSE i0 + 3
        q == SkipSpace(text, p)
        closing == IF i0 = 0 THEN {} ELSE Occurrences(text, cFence, q)
    IN  IF closing = {} THEN [match |-> FALSE, group1 |-> <<>>]
        ELSE [match |-> TRUE,
              group1 |-> SubSeq(text, q, BackSpace(text, Least(closing), q) - 1)]

\* the brace rule taken without asking whether the '{' comes first
clean_json_output_unguarded(text) ==
    LET found == FenceSearch(text)
        start_index == FindChar(text, "{")
        end_index == RFindChar(text, "}")
    IN  IF Occurrences(text, cFence, 1) # {} /\ found.match THEN Strip(found.group1)
        ELSE IF Contains(text, "{") /\ Contains(text, "}")
             THEN SubSeq(text, start_index, end_index)
        ELSE text

\* LeadScoringCrew._clean_json_output
clean_json_output(text) ==
    LET found == FenceSearch(text)
        start_index == FindChar(text, "{")
        end_index == RFindChar(text, "}")
    IN  IF Occurrences(text, cFence, 1) # {} /\ found.match THEN Strip(found.group1)
        ELSE IF Contains(text, "{") /\ Contains(text, "}") /\ start_index < end_index + 1
             THEN SubSeq(text, start_index, end_index)
        ELSE text

\* texts put together from a few pieces
Pieces == {cFence, cJson, <<"{">>, <<"}">>, <<" ">>, <<"a">>, <<Backtick>>}
MaxPieces == 4
RECURSIVE Flatten(_)
Flatten(ps) == IF ps = <<>> THEN <<>> ELSE Head(ps) \o Flatten(Tail(ps))
Texts == {Flatten(ps) : ps \in SeqsUpTo(Pieces, MaxPieces)}

InitClean ==
    /\ phase = "idle"
    /\ args = NoArgs
    /\ origin = [via |-> "none"]
    /\ frame = FreshFrame
    /\ result = NoResult
    /\ result2 = NoResult
    /\ sig = NoSignal
    /\ verdict = NoVerdict
    /\ run = NoRun

CleanJsonOutput ==
    /\ phase = "idle"
    /\ \E text \in Texts :
         /\ args' = [kind |-> "clean", text |-> text]
         /\ result' = [outcome |-> "ok", value |-> clean_json_output(text)]
    /\ phase' = "cleaned"
    /\ UNCHANGED <<origin, frame, result2, sig, verdict, run>>

NextClean == CleanJsonOutput

SpecClean == InitClean /\ [][NextClean]_vars

Cleaned == phase = "cleaned"

\* the first fenced block: from the first fence to the next fence after it
HasFencedBlock(text) ==
    \E i \in Occurrences(text, cFence, 1) : Occurrences(text, cFence, Least(Occurrences(text, cFence, 1)) + 3) # {}
\* what stands between the two fences, without a leading 'json' and without
\* the whitespace around it
InnerContent(text) ==
    LET i0 == Least(Occurrences(text, cFence, 1))
        k == Least(Occurrences(text, cFence, i0 + 3))
        between == SubSeq(text, i0 + 3, k - 1)
    IN  Strip(IF StartsWith(between, cJson) THEN DropPrefix(between, 4) ELSE between)
\* from the first '{' to the last '}', both included; empty when the '}' is first
BraceSpan(text) == SubSeq(text, FindChar(text, "{"), RFindChar(text, "}"))
HasBraces(text) == Contains(text, "{") /\ Contains(text, "}")
IsSubstring(sub, s) ==
    \E i \in 0..Len(s) : i + Len(sub) <= Len(s) /\ SubSeq(s, i + 1, i + Len(sub)) = sub

\* C20 as stated: a text with a fenced block gives the inner content of the
\* first block; otherwise a text with both '{' and '}' gives the text from the
\* first '{' to the last '}'; otherwise the text itself; and the result is
\* always a contiguous part of the text.
C20_AsStated ==
    Cleaned =>
        /\ HasFencedBlock(args.text) => result.value = InnerContent(args.text)
        /\ ~HasFencedBlock(args.text) /\ HasBraces(args.text) =>
             result.value = BraceSpan(args.text)
        /\ ~HasFencedBlock(args.text) /\ ~HasBraces(args.text) => result.value = args.text
        /\ IsSubstring(result.value, args.text)

\* C20 amended: the brace rule applies only when the first '{' stands before
\* the last '}'; a text whose braces are the other way round comes back
\* unchanged, like a text without braces.
C20_CleanJson ==
    Cleaned =>
        LET ordered == HasBraces(args.text)
                       /\ FindChar(args.text, "{") < RFindChar(args.text, "}")
        IN  /\ HasFencedBlock(args.text) => result.value = InnerContent(args.text)
            /\ ~HasFencedBlock(args.text) /\ ordered => result.value = BraceSpan(args.text)
            /\ ~HasFencedBlock(args.text) /\ ~ordered => result.value = args.text
            /\ IsSubstring(result.value, args.text)

\* '} {' comes back as it is
C20_Witness ==
    /\ Cleaned
    /\ args.text = <<"}", " ", "{">>
    /\ result.value = args.text

\* ------------------------------------------------------------------------
\* The priority tier: _determine_lead_status on a float score and the score
\* part of _update_lead_in_db (crew.py). Float scores are held in tenths.
\* ------------------------------------------------------------------------
Tenths(n) == n * 10

\* a tier boundary that is not reached by the score it names
determine_lead_status_strict(score) ==
    IF score > Tenths(85) THEN "money"
    ELSE IF score > Tenths(60) THEN "hot"
    ELSE IF score > Tenths(40) THEN "warm"
    ELSE "cold"

\* LeadScoringCrew._determine_lead_status, the score in tenths
determine_lead_status_float(score) ==
    IF score >= Tenths(85) THEN "money"
    ELSE IF score >= Tenths(60) THEN "hot"
    ELSE IF score >= Tenths(40) THEN "warm"
    ELSE "cold"

\* int() of a float that is not negative
IntOf(score) == score \div 10

\* _update_lead_in_db, lines 108-114: what a ScoringOutput puts in the payload
scoring_payload(scoring_output) ==
    [score |-> IntOf(scoring_output.score),
     lead_status |-> determine_lead_status_float(scoring_output.score),
     ai_confidence |-> scoring_output.ai_confidence]

\* the scores ScoringOutput admits (ge=0, le=100), and some it does not
MaxBeyond == 20
ScoresAdmitted == 0..Tenths(100)
ScoresGiven == (0 - MaxBeyond)..(Tenths(100) + MaxBeyond)

InitTier ==
    /\ phase = "idle"
    /\ args = NoArgs
    /\ origin = [via |-> "none"]
    /\ frame = FreshFrame
    /\ result = NoResult
    /\ result2 = NoResult
    /\ sig = NoSignal
    /\ verdict = NoVerdict
    /\ run = NoRun

\* _determine_lead_status called with any score
DetermineStatus ==
    /\ phase = "idle"
    /\ \E score \in ScoresGiven :
         /\ args' = [kind |-> "status", score |-> score]
         /\ result' = [outcome |-> "ok", lead_status |-> determine_lead_status_float(score)]
    /\ phase' = "tiered"
    /\ UNCHANGED <<origin, frame, result2, sig, verdict, run>>

\* _update_lead_in_db called with a ScoringOutput
UpdateScore ==
    /\ phase = "idle"
    /\ \E score \in ScoresAdmitted, ai_confidence \in {0, 10} :
         /\ args' = [kind |-> "update", score |-> score]
         /\ result' = [outcome |-> "ok"] @@
                      scoring_payload([score |-> score, ai_confidence |-> ai_confidence])
    /\ phase' = "tiered"
    /\ UNCHANGED <<origin, frame, result2, sig, verdict, run>>

NextTier == DetermineStatus \/ UpdateScore

SpecTier == InitTier /\ [][NextTier]_vars

TierRank(name) ==
    CASE name = "cold" -> 0 [] name = "warm" -> 1 [] name = "hot" -> 2 [] name = "money" -> 3

\* C30: every score has a tier; it is money from 85, hot from 60 to below 85,
\* warm from 40 to below 60 and cold below 40; a higher score never has a
\* lower tier; and the tier put in an update is the tier of the integer score
\* put in the same update.
C30_Tier ==
    phase = "tiered" =>
        /\ result.lead_status \in {"money", "hot", "warm", "cold"}
        /\ result.lead_status = "money" <=> args.score >= 850
        /\ result.lead_status = "hot" <=> (args.score >= 600 /\ args.score < 850)
        /\ result.lead_status = "warm" <=> (args.score >= 400 /\ args.score < 600)
        /\ result.lead_status = "cold" <=> args.score < 400
        /\ \A higher \in ScoresGiven :
             higher >= args.score =>
               TierRank(determine_lead_status_float(higher)) >= TierRank(result.lead_status)
        /\ args.kind = "update" => result.lead_status = determine_lead_status(result.score)

\* 84.9 is written as 84 and as hot
C30_Witness ==
    /\ phase = "tiered"
    /\ args.kind = "update"
    /\ args.score = 849
    /\ result.score = 84
    /\ result.lead_status = "hot"

\* ------------------------------------------------------------------------
\* ScoringValidationTool._run (tools/lead_scoring_tools.py). A dict is held
\* by what its keys are: the kind of its score, whether reasoning is there,
\* what sits under "scoring", and the keys of scoring_details.
\* ------------------------------------------------------------------------
component_scores == <<"icp_score", "engagement_score", "signals_score", "connection_score">>
ReasoningField ==
    [icp_score |-> "icp_score_reasoning", engagement_score |-> "engagement_score_reasoning",
     signals_score |-> "signals_score_reasoning", connection_score |-> "connection_score_reasoning"]

\* lines 247-260: an issue for every component score the details lack
RECURSIVE MissingComponents(_, _)
MissingComponents(comps, keys) ==
    IF comps = <<>> THEN <<>>
    ELSE (IF Head(comps) \in keys THEN <<>> ELSE <<"Added missing score component">>)
         \o MissingComponents(Tail(comps), keys)

\* lines 263-267: an issue for every reasoning that is still not there; a
\* component added by the first loop got its reasoning with it
RECURSIVE MissingReasonings(_, _)
MissingReasonings(comps, keys) ==
    IF comps = <<>> THEN <<>>
    ELSE (IF Head(comps) \in keys /\ ReasoningField[Head(comps)] \notin keys
          THEN <<"Added missing reasoning">> ELSE <<>>)
         \o MissingReasonings(Tail(comps), keys)

\* lines 228-276, the issues of a scoring_details that was given
DetailsIssues(details) ==
    LET keys == IF details.kind = "dict" THEN details.keys ELSE {}
    IN  (IF details.kind # "dict" THEN <<"scoring_details is not an object">> ELSE <<>>)
        \o MissingComponents(component_scores, keys)
        \o MissingReasonings(component_scores, keys)
        \o (IF "ai_confidence" \notin keys THEN <<"Added missing ai_confidence">>
            ELSE IF "confidence_reasoning" \notin keys
            THEN <<"Added missing confidence_reasoning">> ELSE <<>>)

\* ScoringValidationTool._run: is_valid, the issues, the confidence score
scoring_validation_run(scoring_data) ==
    IF scoring_data.kind # "dict"
    THEN [is_valid |-> FALSE, issues |-> <<"Input is not a dictionary">>, confidence_score |-> 0]
    ELSE LET missing_fields == scoring_data.score = "absent" \/ ~scoring_data.reasoning
             issues ==
                 (IF missing_fields THEN <<"Missing required fields">> ELSE <<>>)
                 \o (IF scoring_data.score = "not_number" THEN <<"Score is not a number">>
                     ELSE IF scoring_data.score = "out_of_range"
                     THEN <<"Score is out of range">> ELSE <<>>)
                 \o (IF scoring_data.scoring_details.kind = "absent"
                     THEN <<"scoring_details object is missing, created empty one">>
                     ELSE DetailsIssues(scoring_data.scoring_details))
         IN  [is_valid |-> /\ ~missing_fields
                           /\ scoring_data.score \notin {"not_number", "out_of_range"}
                           /\ scoring_data.scoring_details.kind # "other",
              issues |-> issues,
              confidence_score |-> Max(0, 100 - Len(issues) * 10)]

\* scoring objects
DetailKeys ==
    {"icp_score", "engagement_score", "signals_score", "connection_score",
     "icp_score_reasoning", "engagement_score_reasoning", "signals_score_reasoning",
     "connection_score_reasoning", "ai_confidence", "confidence_reasoning"}
DetailsValues0 ==
    {[kind |-> "absent", keys |-> {}], [kind |-> "other", keys |-> {}]}
    \cup {[kind |-> "dict", keys |-> ks] : ks \in SUBSET DetailKeys}
ScoringObjects ==
    {[kind |-> "other", score |-> "absent", reasoning |-> FALSE, scoring |-> "absent",
      scoring_details |-> [kind |-> "absent", keys |-> {}]]}
    \cup [kind : {"dict"}, score : {"absent", "in_range", "out_of_range", "not_number"},
          reasoning : BOOLEAN, scoring : {"absent", "icp_only", "four"},
          scoring_details : DetailsValues0]

InitScoringValidation ==
    /\ phase = "idle"
    /\ args = NoArgs
    /\ origin = [via |-> "none"]
    /\ frame = FreshFrame
    /\ result = NoResult
    /\ result2 = NoResult
    /\ sig = NoSignal
    /\ verdict = NoVerdict
    /\ run = NoRun

ValidateScoring ==
    /\ phase = "idle"
    /\ \E scoring_data \in ScoringObjects :
         /\ args' = [kind |-> "scoring_data", scoring_data |-> scoring_data]
         /\ result' = [outcome |-> "ok"] @@ scoring_validation_run(scoring_data)
    /\ phase' = "scoring_validated"
    /\ UNCHANGED <<origin, frame, result2, sig, verdict, run>>

NextScoringValidation == ValidateScoring

SpecScoringValidation == InitScoringValidation /\ [][NextScoringValidation]_vars

\* the object carries the four component scores, under "scoring" as the test
\* writes them or in scoring_details, and scoring_details holds ai_confidence
\* and its reasoning
CarriesComponents(scoring_data) ==
    /\ scoring_data.kind = "dict"
    /\ \/ scoring_data.scoring = "four"
       \/ {"icp_score", "engagement_score", "signals_score", "connection_score"}
             \subseteq scoring_data.scoring_details.keys
    /\ {"ai_confidence", "confidence_reasoning"} \subseteq scoring_data.scoring_details.keys
\* component scores are missing: one of four under "scoring" and none elsewhere
LacksComponents(scoring_data) ==
    /\ scoring_data.kind = "dict"
    /\ scoring_data.scoring = "icp_only"
    /\ scoring_data.scoring_details.kind = "absent"

\* C29: a scoring object that carries the component scores and a
\* scoring_details with ai_confidence and its reasoning is reported valid with a
\* confidence score above 80; one whose required components are missing is
\* reported invalid.
C29_ScoringValidation ==
    phase = "scoring_validated" =>
        /\ CarriesComponents(args.scoring_data) =>
             result.is_valid /\ result.confidence_score > 80
        /\ LacksComponents(args.scoring_data) => ~result.is_valid

\* ------------------------------------------------------------------------
\* run_scoring_batch_background (api.py): one batch of lead ids, processed in
\* a loop; the state of the batch is kept in run
MaxLeads == 3
BatchLeadIds == {"lead-a", "lead-b"}
LeadIdLists == UNION {[1..n -> BatchLeadIds] : n \in 0..MaxLeads}
UserIdStrs == {sUserUuid, IdStr("not-a-uuid", FALSE)}
\* get_lead_by_id / get_user_preferences: a row, None (.first() found nothing),
\* or an exception of the session or the query
LoadOutcomes == {"row", "none", "db_error"}
\* how a call of process_single_lead can end for its caller: a dict with the key
\* "error", a dict without it, an exception
SingleLeadOutcomes == {"error", "result", "raised"}

NoBatch ==
    [pc |-> "idle", lead_ids_to_process |-> <<>>, at |-> 0,
     lead_data |-> "unset", user_preferences |-> "unset",
     processed_count |-> 0, success_count |-> 0, failure_count |-> 0,
     outcomes |-> <<>>, ended |-> "no"]

\* lines 136-154: the crew is built and the user id parsed; either failing
\* returns before the loop
start_batch(crew_ok, user_id_str, lead_ids) ==
    IF ~crew_ok \/ UUIDRaises(user_id_str)
    THEN [NoBatch EXCEPT !.pc = "ended", !.ended = "returned early",
                         !.lead_ids_to_process = lead_ids]
    ELSE [NoBatch EXCEPT !.pc = "loop", !.at = 1, !.lead_ids_to_process = lead_ids]

\* lines 156-161 and 109-122: the two loads stand before the try; an exception
\* of either leaves the function
load_lead(b, lead, prefs) ==
    IF lead = "db_error" \/ prefs = "db_error"
    THEN [b EXCEPT !.pc = "ended", !.ended = "raised"]
    ELSE [b EXCEPT !.pc = "try", !.lead_data = lead, !.user_preferences = prefs]

\* lines 162-181: None has no to_dict, and AttributeError is caught like every
\* exception of process_single_lead; the result counts as failure when it has
\* the key "error"
process_lead(b, ended) ==
    LET outcome ==
          IF b.lead_data = "none" \/ b.user_preferences = "none" THEN "failure"
          ELSE IF ended = "result" THEN "success"
          ELSE "failure"
    IN  [b EXCEPT
           !.pc = "loop",
           !.at = @ + 1,
           !.lead_data = "unset",
           !.user_preferences = "unset",
           !.processed_count = @ + 1,
           !.success_count = IF outcome = "success" THEN @ + 1 ELSE @,
           !.failure_count = IF outcome = "failure" THEN @ + 1 ELSE @,
           !.outcomes = Append(@, [lead_id |-> b.lead_ids_to_process[b.at],
                                   outcome |-> outcome])]

\* line 183: the loop is over
finish_batch(b) == [b EXCEPT !.pc = "ended", !.ended = "complete"]

InitBatch ==
    /\ phase = "idle"
    /\ args = NoArgs
    /\ origin = [via |-> "none"]
    /\ frame = FreshFrame
    /\ result = NoResult
    /\ result2 = NoResult
    /\ sig = NoSignal
    /\ verdict = NoVerdict
    /\ run = NoBatch

StartBatch ==
    /\ run.pc = "idle"
    /\ \E crew_ok \in BOOLEAN, user_id_str \in UserIdStrs, lead_ids \in LeadIdLists :
         run' = start_batch(crew_ok, user_id_str, lead_ids)
    /\ UNCHANGED <<phase, args, origin, frame, result, result2, sig, verdict>>

LoadLead ==
    /\ run.pc = "loop"
    /\ run.at <= Len(run.lead_ids_to_process)
    /\ \E lead \in LoadOutcomes, prefs \in LoadOutcomes : run' = load_lead(run, lead, prefs)
    /\ UNCHANGED <<phase, args, origin, frame, result, result2, sig, verdict>>

ProcessLead ==
    /\ run.pc = "try"
    /\ \E ended \in SingleLeadOutcomes : run' = process_lead(run, ended)
    /\ UNCHANGED <<phase, args, origin, frame, result, result2, sig, verdict>>

FinishBatch ==
    /\ run.pc = "loop"
    /\ run.at > Len(run.lead_ids_to_process)
    /\ run' = finish_batch(run)
    /\ UNCHANGED <<phase, args, origin, frame, result, result2, sig, verdict>>

NextBatch == StartBatch \/ LoadLead \/ ProcessLead \/ FinishBatch

SpecBatch == InitBatch /\ [][NextBatch]_vars

BatchEnded == run.pc = "ended"
BatchSize == Len(run.lead_ids_to_process)

\* a batch whose loop ran to its end: one outcome per lead id, in order, and
\* processed = successes + failures = N
CompleteBatchCounts ==
    BatchEnded /\ run.ended = "complete" =>
        /\ Len(run.outcomes) = BatchSize
        /\ \A i \in 1..BatchSize : run.outcomes[i].lead_id = run.lead_ids_to_process[i]
        /\ run.processed_count = BatchSize
        /\ run.processed_count = run.success_count + run.failure_count

\* C22: a batch of N lead ids that has entered its loop ends with N outcomes:
\* every lead was attempted, and processed = successes + failures = N, whatever
\* failed for a single lead.
C22_BatchComplete ==
    BatchEnded /\ run.ended # "returned early" =>
        /\ Len(run.outcomes) = BatchSize
        /\ run.processed_count = BatchSize
        /\ run.processed_count = run.success_count + run.failure_count

\* ------------------------------------------------------------------------
\* Two calls of process_single_lead for two leads, their steps interleaved in
\* any order (two batches in two background tasks, or one batch after the
\* other): run holds the locals of each call, result the leads table by id
Runs == {1, 2}
sOtherLeadUuid == IdStr("other-lead-uuid", TRUE)
LeadRowIds == {sLeadUuid, sOtherLeadUuid}
\* the two leads: the second has another id, or no id at all
PairLeads ==
    {<<PyDict(sLeadUuid, ExampleLead), other>> :
        other \in {PyDict(sOtherLeadUuid, ColdLead), PyDict(Absent, ColdLead)}}
PairPrefs == PyDict(sUserUuid, ExamplePrefs)
FloorPayload == [NoPayload EXCEPT !.ai_confidence = 3]
PairRawOutputs == {None, RawStr("fenced", FloorPayload), RawDict(FloorPayload)}

\* a key every call writes under, whatever its lead
record_key_shared(r) == sLeadUuid
\* lines 88-90 and 147: the row update_lead is asked to change
record_key(r) == LeadIdOf(r.lead_data)

\* update_lead (database.py): the row of that id takes the payload
write_record(table, r) ==
    IF r.written THEN [table EXCEPT ![record_key(r)] = r.update_payload] ELSE table

\* the ways crew.kickoff and the parse after it can end for a call
kickoffs(r) ==
    {KickoffRun(r, TRUE, ran, enrichment_output, None) :
        ran \in 0..Len(crew_tasks),
        enrichment_output \in {e \in EnrichmentOutputs : e = None}}
    \cup {KickoffRun(r, TRUE, ran, enrichment_output, None) :
            ran \in 2..Len(crew_tasks), enrichment_output \in EnrichmentOutputs}
    \cup {KickoffRun(r, FALSE, Len(crew_tasks), enrichment_output, raw) :
            enrichment_output \in EnrichmentOutputs, raw \in PairRawOutputs}

\* lines 404-426 for a call with its own engine locals
score_step(r) ==
    IF IsInstance(r.validation_output, "ValidationTaskOutput")
    THEN ScoredRun(r, calculate_deterministic_score(
                        r.lead_data.d, r.user_preferences.d,
                        r.validation_output.validated_positive_signals,
                        r.validation_output.validated_negative_signals,
                        r.validation_output.ai_confidence, FreshFrame).ret)
    ELSE UnscoredRun(r)

\* the instances the calls have in common: the crew's agents and tasks
\* factories and the module's DomainMatchTool; no line of process_single_lead
\* assigns to any of them
SharedInstances ==
    [kind |-> "shared", agents |-> "LeadScoringAgents", tasks |-> "LeadScoringTasks",
     domain_match_tool |-> "DomainMatchTool"]

InitPair ==
    /\ phase = "idle"
    /\ args = NoArgs
    /\ origin = [via |-> "none"]
    /\ frame = FreshFrame
    /\ result = [k \in LeadRowIds |-> None]
    /\ result2 = NoResult
    /\ sig = SharedInstances
    /\ verdict = NoVerdict
    /\ run = [i \in Runs |-> NoRun]

PairEnter ==
    /\ \A i \in Runs : run[i].pc = "idle"
    /\ \E leads \in PairLeads : run' = [i \in Runs |-> EnterRun(leads[i], PairPrefs)]
    /\ UNCHANGED <<phase, args, origin, frame, result, result2, sig, verdict>>

PairDefine ==
    /\ \E i \in Runs, built \in AgentsBuilt :
         /\ run[i].pc = "entered"
         /\ run' = [run EXCEPT ![i] = DefineRun(run[i], built)]
    /\ UNCHANGED <<phase, args, origin, frame, result, result2, sig, verdict>>

PairKickoff ==
    /\ \E i \in Runs :
         /\ run[i].pc = "defined"
         /\ \E r \in kickoffs(run[i]) : run' = [run EXCEPT ![i] = r]
    /\ UNCHANGED <<phase, args, origin, frame, result, result2, sig, verdict>>

PairScore ==
    /\ \E i \in Runs :
         /\ run[i].pc = "executed"
         /\ run' = [run EXCEPT ![i] = score_step(run[i])]
    /\ UNCHANGED <<phase, args, origin, frame, result, result2, sig, verdict>>

PairPersist ==
    /\ \E i \in Runs, db_ok \in BOOLEAN :
         /\ run[i].pc = "scored"
         /\ run' = [run EXCEPT ![i] = PersistRun(run[i], db_ok)]
         /\ result' = write_record(result, run'[i])
    /\ UNCHANGED <<phase, args, origin, frame, result2, sig, verdict>>

PairReturn ==
    /\ \E i \in Runs :
         /\ run[i].pc = "persisted"
         /\ run' = [run EXCEPT ![i] = ReturnRun(run[i])]
    /\ UNCHANGED <<phase, args, origin, frame, result, result2, sig, verdict>>

NextPair ==
    PairEnter \/ PairDefine \/ PairKickoff \/ PairScore \/ PairPersist \/ PairReturn

SpecPair == InitPair /\ [][NextPair]_vars

\* the calls of process_single_lead made alone with these arguments: every
\* state in which such a call can end
Steps(rs) ==
    UNION {CASE r.pc = "entered" -> {DefineRun(r, built) : built \in AgentsBuilt}
             [] r.pc = "defined" -> kickoffs(r)
             [] r.pc = "executed" -> {score_step(r)}
             [] r.pc = "scored" -> {PersistRun(r, db_ok) : db_ok \in BOOLEAN}
             [] r.pc = "persisted" -> {ReturnRun(r)}
             [] OTHER -> {r} : r \in rs}
AloneRuns(lead_data, user_preferences) ==
    Steps(Steps(Steps(Steps(Steps({EnterRun(lead_data, user_preferences)})))))

====
